---- MODULE Spec2Model ----
(***************************************************************************)
(* A model of the quicpro client stack (QUIC + HTTP/3).                    *)
(*                                                                         *)
(* Each component of the stack is a group of variables with its own        *)
(* specification; a specification leaves the variables of the other        *)
(* components at their initial values.                                     *)
(*                                                                         *)
(*   SpecSM      StreamManager: create_stream / close_stream by threads    *)
(*   SpecSMAll   StreamManager: the same with close_all and iteration      *)
(*   SpecStream  one Stream: open, close, send_data, receive_data,         *)
(*               set_priority by threads                                   *)
(*   SpecConn    Connection: open, close, send_packet, receive_packet,     *)
(*               and the construction of a QUICManager around it           *)
(*   SpecHs      QUICHandshake: send_initial_packet and                    *)
(*               process_incoming_packet                                   *)
(*   SpecCC      CongestionController: on_ack, on_loss, _update_cwnd,      *)
(*               reset                                                     *)
(*   SpecCCFair  SpecCC with threads that take a free lock they wait for   *)
(*   SpecRtx     RetransmissionManager with its CongestionController:      *)
(*               add_packet, mark_acknowledged, process_timeouts,          *)
(*               get_retransmission_packets, reset                         *)
(*   SpecRtxAck  SpecRtx with the history of every acknowledgement         *)
(*               and retransmission                                        *)
(*   SpecCodec   encode_quic_packet / decode_quic_packet on damaged wire   *)
(*               packets                                                   *)
(*   SpecCodecWire  SpecCodec with trailing bytes and a zero-length packet *)
(*   SpecMgr     QuicManager / QUICManager: construction, event loop,      *)
(*               create_stream, send_stream, receive_packet, close         *)
(*   SpecEnc     TLSEncryptor: encrypt and its sequence number             *)
(*   SpecTe      TLSEncryptor.encrypt called by threads                    *)
(*   SpecQpack   QPACKEncoder.encode and QPACKDecoder.decode               *)
(*   SpecQd      one QPACKEncoder feeding one QPACKDecoder block by block  *)
(*   SpecFd      route_incoming_frame dispatching one frame to its handler *)
(*   SpecHuff    huffman_encode / huffman_decode over HPACK_HUFFMAN_TABLE  *)
(*   SpecH3      HTTP3Connection: route_incoming_frame, receive_response,  *)
(*               negotiate_settings, close, and its StreamManager          *)
(*   SpecLoop    SyncEventLoop: schedule_task, run_forever, stop and the   *)
(*               worker threads of its executor                            *)
(*   SpecLoopFair  SpecLoop with fair run_forever and stop steps           *)
(*   SpecPipe    the send pipeline Encoder, HTTP3Sender, QUICSender,       *)
(*               TLSEncryptor and the receive pipeline TLSDecryptor,       *)
(*               QUICReceiver, HTTP3Receiver, Decoder                      *)
(*   SpecPrio    StreamPriority: construction, comparison, sorted()        *)
(***************************************************************************)
EXTENDS Integers, Sequences, FiniteSets, TLC

-----------------------------------------------------------------------------
(* Bounds of the model. *)

\* threads that call into one StreamManager / one Stream
NumThreads == 2
\* stream ids a StreamManager hands out before the model stops creating
MaxStreams == 3
\* bytes a Stream accepts before the model stops sending
MaxBytes == 3
\* packets a Connection sends / receives before the model stops
MaxSent == 3
MaxReceived == 2
\* packets given to one QUICHandshake before the model stops
MaxHsPackets == 3
\* the largest cwnd on_ack grows to before the model stops acknowledging
MaxCwnd == 17520
\* the clock advances by TickStep tenths of a second, up to MaxTime
TickStep == 6
MaxTime == 24
\* packets added to a RetransmissionManager between two resets
MaxRtxPackets == 2
\* on_loss calls made directly on a CongestionController before the model stops
MaxLosses == 3
\* encrypt calls made on one TLSEncryptor
MaxEncrypts == 4
\* encrypt calls threads make on one TLSEncryptor
MaxThreadEncrypts == 3
\* the longest payload given to the QUIC packet codec
MaxPayloadLen == 3
\* the headers of one encode call
MaxHeaders == 2
\* the bytes of a string given to huffman_encode
MaxHuffLen == 2
\* the streams the application creates on the StreamManager of an HTTP3Connection
MaxH3Streams == 2
\* route_incoming_frame calls made on one HTTP3Connection
MaxRoutes == 2
\* tasks given to schedule_task of one SyncEventLoop
MaxTasks == 2
\* messages given to Encoder.encode of one pipeline
MaxSends == 2
\* StreamPriority objects constructed
MaxPriorities == 3
\* encode calls made on the QPACKEncoder that has a QPACKDecoder
MaxBlocks == 3

Threads == 1..NumThreads

Range(s) == {s[i] : i \in 1..Len(s)}

MinOf(S) == CHOOSE x \in S : \A y \in S : x <= y

-----------------------------------------------------------------------------
(* Stream: state, buffer, priority, guarded by a per-stream lock.          *)

IDLE == "idle"
OPEN == "open"
HALF_CLOSED == "half_closed"
CLOSED == "closed"

StreamStates == {IDLE, OPEN, HALF_CLOSED, CLOSED}

\* position of a state in the order IDLE, OPEN, HALF_CLOSED, CLOSED
StateRank(s) ==
  CASE s = IDLE -> 0
    [] s = OPEN -> 1
    [] s = HALF_CLOSED -> 2
    [] s = CLOSED -> 3

\* `with self.lock:` can be entered only when no thread holds the lock
LockFreeNoLock(l) == TRUE
LockFree(l) == l = 0

\* Stream.open: IDLE -> OPEN, any other state is left alone
OpenResultAlways(s) == OPEN
OpenResult(s) == IF s # IDLE THEN s ELSE OPEN

\* Stream.close: any state -> CLOSED
CloseResult(s) == IF s = CLOSED THEN s ELSE CLOSED

\* Stream.send_data raises RuntimeError unless the state is OPEN
SendAllowedUnlessClosed(s) == s # CLOSED
SendAllowed(s) == s = OPEN

\* the byte chunks callers send
Chunks == {<<1>>, <<2, 3>>}

\* StreamPriority objects callers attach (weight, dependency)
Priorities == {[weight |-> 1, dependency |-> 0], [weight |-> 256, dependency |-> 1]}

VARIABLES
  st_state,     \* Stream.state
  st_buffer,    \* Stream.buffer
  st_priority,  \* Stream.priority: <<>> is None, <<p>> a StreamPriority
  st_lock,      \* Stream.lock: 0 free, else the thread holding it
  st_pc,        \* per thread: "idle" or "rd_clear" (inside receive_data)
  st_data,      \* per thread: receive_data's local `data`
  st_sent,      \* history: the bytes appended by send_data, in append order
  st_received,  \* history: the bytes returned by receive_data, in return order
  st_last,      \* history: the call completed last
  st_flip       \* history: flips at every completed call

streamVars == <<st_state, st_buffer, st_priority, st_lock, st_pc, st_data,
                st_sent, st_received, st_last, st_flip>>

NoCall == [op |-> "none", ok |-> TRUE, arg |-> <<>>]

StreamInit ==
  /\ st_state = IDLE
  /\ st_buffer = <<>>
  /\ st_priority = <<>>
  /\ st_lock = 0
  /\ st_pc = [t \in Threads |-> "idle"]
  /\ st_data = [t \in Threads |-> <<>>]
  /\ st_sent = <<>>
  /\ st_received = <<>>
  /\ st_last = NoCall
  /\ st_flip = 0

Completed(op, ok, arg) ==
  /\ st_last' = [op |-> op, ok |-> ok, arg |-> arg]
  /\ st_flip' = 1 - st_flip

Open(t) ==
  /\ st_pc[t] = "idle"
  /\ LockFree(st_lock)
  /\ st_state' = OpenResult(st_state)
  /\ Completed("open", TRUE, <<>>)
  /\ UNCHANGED <<st_buffer, st_priority, st_lock, st_pc, st_data, st_sent, st_received>>

Close(t) ==
  /\ st_pc[t] = "idle"
  /\ LockFree(st_lock)
  /\ st_state' = CloseResult(st_state)
  /\ Completed("close", TRUE, <<>>)
  /\ UNCHANGED <<st_buffer, st_priority, st_lock, st_pc, st_data, st_sent, st_received>>

SendData(t, d) ==
  /\ st_pc[t] = "idle"
  /\ LockFree(st_lock)
  /\ Len(st_sent) + Len(d) <= MaxBytes
  /\ IF SendAllowed(st_state)
       THEN /\ st_buffer' = st_buffer \o d
            /\ st_sent' = st_sent \o d
            /\ Completed("send_data", TRUE, d)
       ELSE /\ Completed("send_data", FALSE, d)
            /\ UNCHANGED <<st_buffer, st_sent>>
  /\ UNCHANGED <<st_state, st_priority, st_lock, st_pc, st_data, st_received>>

\* receive_data, first statement under the lock: data = bytes(self.buffer)
ReceiveDataCopy(t) ==
  /\ st_pc[t] = "idle"
  /\ LockFree(st_lock)
  /\ st_lock' = t
  /\ st_data' = [st_data EXCEPT ![t] = st_buffer]
  /\ st_pc' = [st_pc EXCEPT ![t] = "rd_clear"]
  /\ UNCHANGED <<st_state, st_buffer, st_priority, st_sent, st_received, st_last, st_flip>>

\* receive_data, second statement: self.buffer.clear(); the lock is released
\* and data returned
ReceiveDataClear(t) ==
  /\ st_pc[t] = "rd_clear"
  /\ st_buffer' = <<>>
  /\ st_lock' = 0
  /\ st_received' = st_received \o st_data[t]
  /\ st_pc' = [st_pc EXCEPT ![t] = "idle"]
  /\ st_data' = [st_data EXCEPT ![t] = <<>>]
  /\ Completed("receive_data", TRUE, st_data[t])
  /\ UNCHANGED <<st_state, st_priority, st_sent>>

SetPriority(t, p) ==
  /\ st_pc[t] = "idle"
  /\ LockFree(st_lock)
  /\ st_priority' = <<p>>
  /\ Completed("set_priority", TRUE, <<>>)
  /\ UNCHANGED <<st_state, st_buffer, st_lock, st_pc, st_data, st_sent, st_received>>

-----------------------------------------------------------------------------
(* StreamManager: the stream map, the id counter and the manager lock.     *)

VARIABLES
  sm_streams,   \* StreamManager._streams: the ids registered
  sm_objState,  \* the state of every Stream object created, by id
  sm_next,      \* StreamManager._next_stream_id
  sm_lock,      \* StreamManager._lock: 0 free, else the thread holding it
  sm_pc,        \* per thread: position inside create_stream / close_stream
  sm_id,        \* per thread: create_stream's local `stream_id`
  sm_tmp,       \* per thread: the value `_next_stream_id += 1` has loaded
  sm_popped,    \* per thread: close_stream's local `stream` (0 is None)
  sm_created,   \* history: the ids of the streams returned by create_stream
  sm_closedIds, \* history: the ids close_stream has removed
  sm_todo,      \* per thread: what is left of close_all's local `stream_ids`
  sm_seen,      \* history, per thread: the ids registered when close_all was called
  sm_iter       \* the iterator __iter__ returned, and what it has yielded

smVars == <<sm_streams, sm_objState, sm_next, sm_lock, sm_pc, sm_id, sm_tmp,
            sm_popped, sm_created, sm_closedIds, sm_todo, sm_seen, sm_iter>>

\* no iterator has been made
NoIterator ==
  [state |-> "none", used |-> 0, pos |-> 0, yielded |-> <<>>, snapshot |-> {}]

SMInit ==
  /\ sm_streams = {}
  /\ sm_objState = <<>>
  /\ sm_next = 1
  /\ sm_lock = 0
  /\ sm_pc = [t \in Threads |-> "idle"]
  /\ sm_id = [t \in Threads |-> 0]
  /\ sm_tmp = [t \in Threads |-> 0]
  /\ sm_popped = [t \in Threads |-> 0]
  /\ sm_created = <<>>
  /\ sm_closedIds = {}
  /\ sm_todo = [t \in Threads |-> <<>>]
  /\ sm_seen = [t \in Threads |-> {}]
  /\ sm_iter = NoIterator

\* create_stream: `with self._lock:`
CreateStreamAcquire(t) ==
  /\ sm_pc[t] = "idle"
  /\ LockFree(sm_lock)
  /\ sm_next <= MaxStreams
  /\ sm_lock' = t
  /\ sm_pc' = [sm_pc EXCEPT ![t] = "cs_read"]
  /\ UNCHANGED <<sm_streams, sm_objState, sm_next, sm_id, sm_tmp, sm_popped,
                 sm_created, sm_closedIds, sm_todo, sm_seen, sm_iter>>

\* stream_id = self._next_stream_id
CreateStreamRead(t) ==
  /\ sm_pc[t] = "cs_read"
  /\ sm_id' = [sm_id EXCEPT ![t] = sm_next]
  /\ sm_pc' = [sm_pc EXCEPT ![t] = "cs_load"]
  /\ UNCHANGED <<sm_streams, sm_objState, sm_next, sm_lock, sm_tmp, sm_popped,
                 sm_created, sm_closedIds, sm_todo, sm_seen, sm_iter>>

\* self._next_stream_id += 1, the load
CreateStreamLoad(t) ==
  /\ sm_pc[t] = "cs_load"
  /\ sm_tmp' = [sm_tmp EXCEPT ![t] = sm_next]
  /\ sm_pc' = [sm_pc EXCEPT ![t] = "cs_store"]
  /\ UNCHANGED <<sm_streams, sm_objState, sm_next, sm_lock, sm_id, sm_popped,
                 sm_created, sm_closedIds, sm_todo, sm_seen, sm_iter>>

\* self._next_stream_id += 1, the store
CreateStreamStore(t) ==
  /\ sm_pc[t] = "cs_store"
  /\ sm_next' = sm_tmp[t] + 1
  /\ sm_pc' = [sm_pc EXCEPT ![t] = "cs_reg"]
  /\ UNCHANGED <<sm_streams, sm_objState, sm_lock, sm_id, sm_tmp, sm_popped,
                 sm_created, sm_closedIds, sm_todo, sm_seen, sm_iter>>

\* stream = Stream(stream_id); stream.open(); self._streams[stream_id] = stream;
\* the lock is released and the stream returned
CreateStreamRegister(t) ==
  /\ sm_pc[t] = "cs_reg"
  /\ sm_objState' = (sm_id[t] :> OpenResult(IDLE)) @@ sm_objState
  /\ sm_streams' = sm_streams \cup {sm_id[t]}
  /\ sm_lock' = 0
  /\ sm_created' = Append(sm_created, sm_id[t])
  /\ sm_pc' = [sm_pc EXCEPT ![t] = "idle"]
  /\ sm_id' = [sm_id EXCEPT ![t] = 0]
  /\ sm_tmp' = [sm_tmp EXCEPT ![t] = 0]
  /\ UNCHANGED <<sm_next, sm_popped, sm_closedIds, sm_todo, sm_seen, sm_iter>>

\* close_stream: with self._lock: stream = self._streams.pop(stream_id, None)
CloseStreamPop(t, id) ==
  /\ sm_pc[t] = "idle"
  /\ LockFree(sm_lock)
  /\ sm_popped' = [sm_popped EXCEPT ![t] = IF id \in sm_streams THEN id ELSE 0]
  /\ sm_streams' = sm_streams \ {id}
  /\ sm_closedIds' = IF id \in sm_streams THEN sm_closedIds \cup {id} ELSE sm_closedIds
  /\ sm_pc' = [sm_pc EXCEPT ![t] = "cl_close"]
  /\ UNCHANGED <<sm_objState, sm_next, sm_lock, sm_id, sm_tmp, sm_created, sm_todo, sm_seen, sm_iter>>

\* close_stream: if stream: stream.close()
CloseStreamClose(t) ==
  /\ sm_pc[t] = "cl_close"
  /\ sm_objState' = IF sm_popped[t] # 0
                      THEN [sm_objState EXCEPT ![sm_popped[t]] = CloseResult(@)]
                      ELSE sm_objState
  /\ sm_popped' = [sm_popped EXCEPT ![t] = 0]
  /\ sm_pc' = [sm_pc EXCEPT ![t] = "idle"]
  /\ UNCHANGED <<sm_streams, sm_next, sm_lock, sm_id, sm_tmp, sm_created, sm_closedIds, sm_todo, sm_seen, sm_iter>>

\* get_stream(stream_id): self._streams.get(stream_id) under the lock; 0 is None
GetStream(streams, stream_id) == IF stream_id \in streams THEN stream_id ELSE 0

\* list(self._streams.keys()): the keys in insertion order, which is the
\* order of the ids
RECURSIVE KeyList(_)
KeyList(streams) ==
  IF streams = {} THEN <<>>
  ELSE <<MinOf(streams)>> \o KeyList(streams \ {MinOf(streams)})

\* close_all: with self._lock: stream_ids = list(self._streams.keys())
CloseAllSnapshot(t) ==
  /\ sm_pc[t] = "idle"
  /\ LockFree(sm_lock)
  /\ sm_todo' = [sm_todo EXCEPT ![t] = KeyList(sm_streams)]
  /\ sm_seen' = [sm_seen EXCEPT ![t] = sm_streams]
  /\ sm_pc' = [sm_pc EXCEPT ![t] = "ca_loop"]
  /\ UNCHANGED <<sm_streams, sm_objState, sm_next, sm_lock, sm_id, sm_tmp, sm_popped,
                 sm_created, sm_closedIds, sm_iter>>

\* close_all: for stream_id in stream_ids: self.close_stream(stream_id), up
\* to the end of close_stream's `with self._lock:`
CloseAllPop(t) ==
  /\ sm_pc[t] = "ca_loop"
  /\ sm_todo[t] # <<>>
  /\ LockFree(sm_lock)
  /\ sm_popped' = [sm_popped EXCEPT ![t] = GetStream(sm_streams, Head(sm_todo[t]))]
  /\ sm_streams' = sm_streams \ {Head(sm_todo[t])}
  /\ sm_closedIds' = IF Head(sm_todo[t]) \in sm_streams
                       THEN sm_closedIds \cup {Head(sm_todo[t])} ELSE sm_closedIds
  /\ sm_todo' = [sm_todo EXCEPT ![t] = Tail(@)]
  /\ sm_pc' = [sm_pc EXCEPT ![t] = "ca_close"]
  /\ UNCHANGED <<sm_objState, sm_next, sm_lock, sm_id, sm_tmp, sm_created, sm_seen, sm_iter>>

\* close_all: the rest of that close_stream call: if stream: stream.close()
CloseAllClose(t) ==
  /\ sm_pc[t] = "ca_close"
  /\ sm_objState' = IF sm_popped[t] # 0
                      THEN [sm_objState EXCEPT ![sm_popped[t]] = CloseResult(@)]
                      ELSE sm_objState
  /\ sm_popped' = [sm_popped EXCEPT ![t] = 0]
  /\ sm_pc' = [sm_pc EXCEPT ![t] = "ca_loop"]
  /\ UNCHANGED <<sm_streams, sm_next, sm_lock, sm_id, sm_tmp, sm_created, sm_closedIds,
                 sm_todo, sm_seen, sm_iter>>

\* close_all: the for loop is exhausted and close_all returns
CloseAllReturn(t) ==
  /\ sm_pc[t] = "ca_loop"
  /\ sm_todo[t] = <<>>
  /\ sm_pc' = [sm_pc EXCEPT ![t] = "idle"]
  /\ sm_seen' = [sm_seen EXCEPT ![t] = {}]
  /\ UNCHANGED <<sm_streams, sm_objState, sm_next, sm_lock, sm_id, sm_tmp, sm_popped,
                 sm_created, sm_closedIds, sm_todo, sm_iter>>

\* __iter__: with self._lock: return iter(self._streams.values()).  The
\* iterator is one over the view of the dictionary itself: it remembers the
\* number of entries of the dictionary (used) and its position in the
\* entries, which are in the order of the ids.
IterStart ==
  /\ sm_iter.state # "active"
  /\ LockFree(sm_lock)
  /\ sm_iter' = [state |-> "active", used |-> Cardinality(sm_streams), pos |-> 0,
                 yielded |-> <<>>, snapshot |-> sm_streams]
  /\ UNCHANGED <<sm_streams, sm_objState, sm_next, sm_lock, sm_pc, sm_id, sm_tmp,
                 sm_popped, sm_created, sm_closedIds, sm_todo, sm_seen>>

\* the entries of the dictionary behind position pos
EntriesAfter(streams, pos) == {id \in streams : id > pos}

\* next(iterator), outside the lock: RuntimeError("dictionary changed size
\* during iteration") when the dictionary has another number of entries
\* than at the start, else the next entry that is still there
IterStep(it, streams) ==
  IF Cardinality(streams) # it.used THEN [it EXCEPT !.state = "RuntimeError"]
  ELSE IF EntriesAfter(streams, it.pos) = {} THEN [it EXCEPT !.state = "exhausted"]
  ELSE [it EXCEPT !.pos = MinOf(EntriesAfter(streams, it.pos)),
                  !.yielded = Append(@, MinOf(EntriesAfter(streams, it.pos)))]

IterNext ==
  /\ sm_iter.state = "active"
  /\ sm_iter' = IterStep(sm_iter, sm_streams)
  /\ UNCHANGED <<sm_streams, sm_objState, sm_next, sm_lock, sm_pc, sm_id, sm_tmp,
                 sm_popped, sm_created, sm_closedIds, sm_todo, sm_seen>>

-----------------------------------------------------------------------------
(* Connection (quic/connection/core.py): no lock, no queue bound, no        *)
(* condition variable; every method is straight-line code.                  *)

\* packets a caller hands to a standalone connection
ConnPackets == {<<"a">>, <<"b">>}

\* the keyword arguments Connection.receive_packet declares besides self
ReceivePacketParams == {"packet"}

\* Python binds a call's keyword arguments to the declared parameters and
\* raises TypeError when they do not match
BindsTo(kwargs, params) == kwargs = params

VARIABLES
  conn_is_open,      \* Connection.is_open
  conn_state,        \* Connection.state
  conn_sent,         \* Connection.sent_packets
  conn_received,     \* Connection.received_packets
  conn_last,         \* history: the call completed last and how it ended
  conn_flip,         \* history: flips at every completed call
  conn_closeCalled,  \* history: close() has been called
  mgr_pc,            \* QUICManager.__init__: "none" (no manager), a line, "raised"
  mgr_err            \* QUICManager.__init__: the exception it raised

connVars == <<conn_is_open, conn_state, conn_sent, conn_received, conn_last,
              conn_flip, conn_closeCalled>>
mgrVars == <<mgr_pc, mgr_err>>

ConnInit ==
  /\ conn_is_open = FALSE
  /\ conn_state = "INITIAL"
  /\ conn_sent = <<>>
  /\ conn_received = <<>>
  /\ conn_last = [op |-> "none", result |-> "None"]
  /\ conn_flip = 0
  /\ conn_closeCalled = FALSE

MgrInit ==
  /\ mgr_pc = "none"
  /\ mgr_err = "none"

ConnCompleted(op, result) ==
  /\ conn_last' = [op |-> op, result |-> result]
  /\ conn_flip' = 1 - conn_flip

\* the connection belongs to a caller, not to a manager under construction
Standalone == mgr_pc = "none"

ConnOpen ==
  /\ Standalone
  /\ conn_is_open' = TRUE
  /\ conn_state' = "OPEN"
  /\ ConnCompleted("open", "None")
  /\ UNCHANGED <<conn_sent, conn_received, conn_closeCalled>>

ConnClose ==
  /\ Standalone
  /\ IF ~conn_is_open
       THEN UNCHANGED <<conn_is_open, conn_state>>
       ELSE /\ conn_is_open' = FALSE
            /\ conn_state' = "CLOSED"
  /\ conn_closeCalled' = TRUE
  /\ ConnCompleted("close", "None")
  /\ UNCHANGED <<conn_sent, conn_received>>

\* the effect of Connection.send_packet(p) on sent_packets, and its outcome
SendPacketResult(p) == IF ~conn_is_open THEN "QuicConnectionError" ELSE "None"
SentAfter(p) == IF ~conn_is_open THEN conn_sent ELSE Append(conn_sent, p)

ConnSendPacket(p) ==
  /\ Standalone
  /\ Len(conn_sent) < MaxSent
  /\ conn_sent' = SentAfter(p)
  /\ ConnCompleted("send_packet", SendPacketResult(p))
  /\ UNCHANGED <<conn_is_open, conn_state, conn_received, conn_closeCalled>>

\* Connection.receive_packet called with the keyword arguments kwargs:
\* receive_packet(packet=p) records p; receive_packet(timeout=0.5), the call
\* QUICManager._perform_handshake makes, does not bind
ConnReceivePacket(kwargs, p) ==
  /\ Standalone
  /\ Len(conn_received) < MaxReceived
  /\ IF ~BindsTo(kwargs, ReceivePacketParams)
       THEN /\ ConnCompleted("receive_packet(timeout)", "TypeError")
            /\ UNCHANGED conn_received
       ELSE IF ~conn_is_open
         THEN /\ ConnCompleted("receive_packet", "QuicConnectionError")
              /\ UNCHANGED conn_received
         ELSE /\ conn_received' = Append(conn_received, p)
              /\ ConnCompleted("receive_packet", "None")
  /\ UNCHANGED <<conn_is_open, conn_state, conn_sent, conn_closeCalled>>

-----------------------------------------------------------------------------
(* QUICManager.__init__ (quic/quic_manager.py).  The constructor builds its *)
(* own Connection, opens it, and then reads connection.stream_manager, an   *)
(* attribute Connection does not have: the AttributeError leaves __init__   *)
(* at line 40, before the event-loop thread is started (line 43) and before *)
(* _perform_handshake (line 49).  Nothing in __init__ catches an exception, *)
(* so no path out of it calls close().                                      *)

\* the attributes Connection.__init__ sets
ConnectionAttrs == {"connection_id", "version", "state", "is_open",
                    "sent_packets", "received_packets", "peer_address"}

\* lines 37-38: self.connection = Connection(connection_id); self.connection.open()
MgrInitConnection ==
  /\ mgr_pc = "none"
  /\ conn_last.op = "none"
  /\ conn_is_open' = TRUE
  /\ conn_state' = "OPEN"
  /\ ConnCompleted("open", "None")
  /\ mgr_pc' = "line40"
  /\ UNCHANGED <<conn_sent, conn_received, conn_closeCalled, mgr_err>>

\* line 40: self.stream_manager = self.connection.stream_manager
MgrInitStreamManager ==
  /\ mgr_pc = "line40"
  /\ "stream_manager" \notin ConnectionAttrs
  /\ mgr_pc' = "raised"
  /\ mgr_err' = "AttributeError"
  /\ UNCHANGED connVars

-----------------------------------------------------------------------------
(* QUICHandshake (quic/handshake_and_negotiation.py).  A packet is a        *)
(* sequence of tokens, each standing for the bytes it spells; startswith,   *)
(* `in`, split(","), strip() and decode("ascii") work on the tokens.        *)

INITIAL == "INITIAL"
VERSION_NEGOTIATION == "VERSION_NEGOTIATION"
HANDSHAKE == "HANDSHAKE"
TLS_HANDSHAKE == "TLS_HANDSHAKE"
ONE_RTT == "ONE_RTT"
COMPLETED == "COMPLETED"

\* HandshakeState values, in the order of the enum
HandshakeRank(s) ==
  CASE s = INITIAL -> 1
    [] s = VERSION_NEGOTIATION -> 2
    [] s = HANDSHAKE -> 3
    [] s = TLS_HANDSHAKE -> 4
    [] s = ONE_RTT -> 5
    [] s = COMPLETED -> 6

\* the packets a peer sends
HsPackets == {
  <<"VERNEG:", "v1">>,
  <<"VERNEG:", "v2", ",", " ", "v1">>,
  <<"VERNEG:", "v2">>,
  <<"VERNEG:", "\\xff">>,
  <<"HANDSHAKE_DONE">>,
  <<"TLS_START">>,
  <<"TLS_DONE">>,
  <<"x">> }

StartsWith(p, tok) == Len(p) > 0 /\ p[1] = tok
Contains(p, tok) == tok \in Range(p)

\* bytes.decode("ascii") raises UnicodeDecodeError on a byte above 0x7f
IsAscii(toks) == "\\xff" \notin Range(toks)

\* str.split(","): the pieces between the commas
RECURSIVE SplitComma(_)
SplitComma(toks) ==
  IF \A i \in 1..Len(toks) : toks[i] # ","
    THEN <<toks>>
    ELSE LET k == CHOOSE i \in 1..Len(toks) :
                    toks[i] = "," /\ \A j \in 1..(i - 1) : toks[j] # ","
         IN <<SubSeq(toks, 1, k - 1)>> \o SplitComma(SubSeq(toks, k + 1, Len(toks)))

\* str.strip(): leading and trailing blanks removed
RECURSIVE Strip(_)
Strip(toks) ==
  IF toks = <<>> THEN toks
  ELSE IF Head(toks) = " " THEN Strip(Tail(toks))
  ELSE IF toks[Len(toks)] = " " THEN Strip(SubSeq(toks, 1, Len(toks) - 1))
  ELSE toks

\* [v.strip() for v in versions_str.split(",") if v.strip()]
PeerVersions(toks) ==
  LET pieces == SplitComma(toks)
  IN {Strip(pieces[i]) : i \in 1..Len(pieces)} \ {<<>>}

\* _negotiate_version: the local version when the peer lists it, else an
\* exception (<<>> here)
NegotiateVersion(local, peers) == IF local \in peers THEN <<local>> ELSE <<>>

InitialPacket(local) == <<"QUIC_INIT:">> \o local
OneRttPacket == <<"QUIC_1RTT:", "FINALIZE_HANDSHAKE">>

VARIABLES
  hs_state,       \* QUICHandshake.state
  hs_local,       \* QUICHandshake.local_version (a token sequence)
  hs_negotiated,  \* QUICHandshake.negotiated_version: <<>> is None, <<v>> a version
  hs_tls,         \* QUICHandshake.tls_manager is not None
  hs_log,         \* history: the packets given to process_incoming_packet
  hs_raised       \* history: some handshake call ended in an exception

hsVars == <<hs_state, hs_local, hs_negotiated, hs_tls, hs_log, hs_raised>>

\* QUICHandshake(connection, "v1", tls_manager)
HsInitWith(tls) ==
  /\ hs_state = INITIAL
  /\ hs_local = <<"v1">>
  /\ hs_negotiated = <<>>
  /\ hs_tls = tls
  /\ hs_log = <<>>
  /\ hs_raised = FALSE

HsInit == \E tls \in BOOLEAN : HsInitWith(tls)

\* no change, nothing sent, no exception
HsKeep(state) ==
  [state |-> state, local |-> hs_local, negotiated |-> hs_negotiated,
   send |-> <<>>, exc |-> FALSE]

\* _handle_handshake_packet, entered in state cur; tlsRaises says whether
\* tls_manager.perform_handshake raises
HandleHandshakePacket(p, cur, tlsRaises) ==
  IF Contains(p, "TLS_START") /\ hs_tls
    THEN IF tlsRaises
           THEN [HsKeep(TLS_HANDSHAKE) EXCEPT !.exc = TRUE]
           ELSE [HsKeep(TLS_HANDSHAKE) EXCEPT !.send = <<OneRttPacket>>]
  ELSE IF Contains(p, "HANDSHAKE_DONE")
    THEN [HsKeep(ONE_RTT) EXCEPT !.send = <<OneRttPacket>>]
  ELSE HsKeep(cur)

\* _handle_tls_packet
HandleTlsPacket(p) ==
  IF Contains(p, "TLS_DONE")
    THEN [HsKeep(ONE_RTT) EXCEPT !.send = <<OneRttPacket>>]
    ELSE HsKeep(TLS_HANDSHAKE)

\* the INITIAL branch for a packet that starts with "VERNEG:"
HandleVersionNegotiation(p) ==
  IF ~IsAscii(Tail(p))
    THEN [HsKeep(VERSION_NEGOTIATION) EXCEPT !.exc = TRUE]
  ELSE LET v == NegotiateVersion(hs_local, PeerVersions(Tail(p)))
       IN IF v = <<>>
            THEN [HsKeep(VERSION_NEGOTIATION) EXCEPT !.exc = TRUE]
            ELSE [state |-> VERSION_NEGOTIATION, local |-> v[1], negotiated |-> v,
                  send |-> <<InitialPacket(v[1])>>, exc |-> FALSE]

\* process_incoming_packet up to its send on the connection: the branch on
\* self.state; VERSION_NEGOTIATION and COMPLETED have no branch
ProcessIncoming(p, tlsRaises) ==
  IF hs_state = INITIAL
    THEN IF StartsWith(p, "VERNEG:")
           THEN HandleVersionNegotiation(p)
           ELSE HandleHandshakePacket(p, HANDSHAKE, tlsRaises)
  ELSE IF hs_state = HANDSHAKE THEN HandleHandshakePacket(p, HANDSHAKE, tlsRaises)
  ELSE IF hs_state = TLS_HANDSHAKE THEN HandleTlsPacket(p)
  ELSE IF hs_state = ONE_RTT THEN HsKeep(COMPLETED)
  ELSE HsKeep(hs_state)

\* a handshake method calls connection.send_packet(pkt) for each pkt of send
HsSend(send) ==
  IF send = <<>>
    THEN UNCHANGED <<conn_sent, conn_last, conn_flip>>
    ELSE /\ conn_sent' = SentAfter(send[1])
         /\ ConnCompleted("send_packet", SendPacketResult(send[1]))

HsSendRaises(send) == send # <<>> /\ SendPacketResult(send[1]) # "None"

HsSendInitialPacket ==
  /\ Len(conn_sent) < MaxSent
  /\ HsSend(<<InitialPacket(hs_local)>>)
  /\ hs_raised' = (hs_raised \/ HsSendRaises(<<InitialPacket(hs_local)>>))
  /\ UNCHANGED <<hs_state, hs_local, hs_negotiated, hs_tls, hs_log>>
  /\ UNCHANGED <<conn_is_open, conn_state, conn_received, conn_closeCalled>>

HsProcessIncomingPacket(p, tlsRaises) ==
  /\ Len(hs_log) < MaxHsPackets
  /\ Len(conn_sent) < MaxSent
  /\ LET r == ProcessIncoming(p, tlsRaises)
     IN /\ hs_state' = r.state
        /\ hs_local' = r.local
        /\ hs_negotiated' = r.negotiated
        /\ HsSend(r.send)
        /\ hs_raised' = (hs_raised \/ r.exc \/ HsSendRaises(r.send))
  /\ hs_log' = Append(hs_log, p)
  /\ UNCHANGED hs_tls
  /\ UNCHANGED <<conn_is_open, conn_state, conn_received, conn_closeCalled>>

-----------------------------------------------------------------------------
(* CongestionController (quic/congestion_control.py).  Sizes are bytes;     *)
(* beta is kept in tenths (0.7 is 7); the clock counts tenths of a second.  *)

DefaultMss == 1460
DefaultBeta == 7
DefaultMinCwndFactor == 2
DefaultCwndFactor == 10
\* cubic_constant 0.4, in tenths
DefaultCubicConstant == 4

\* dict.get(key, default) of an Optional[Dict]; <<>> stands for None and {}
Get(config, key, default) == IF key \in DOMAIN config THEN config[key] ELSE default

\* the configurations a controller is constructed with
CCConfigs == {
  <<>>,
  [initial_cwnd |-> 1460],
  [min_cwnd |-> 16060],
  [initial_ssthresh |-> 16060],
  [beta |-> 5] }

\* the acked_bytes callers report
AckSizes == {1460}

\* the cwnd in 0..MaxCwnd for which the double product cwnd * 0.7 lies just
\* below the integer 7 * cwnd / 10, so that int() yields one less (0.7 is
\* not a double; the nearest double is smaller)
BetaProductRoundsDown == {
  90, 170, 180, 330, 340, 350, 360, 650, 660, 670, 680, 690, 700, 710, 720,
  730, 1290, 1300, 1310, 1320, 1330, 1340, 1350, 1360, 1370, 1380, 1390,
  1400, 1410, 1420, 1430, 1440, 1450, 1460, 2570, 2580, 2590, 2600, 2610,
  2620, 2630, 2640, 2650, 2660, 2670, 2680, 2690, 2700, 2710, 2720, 2730,
  2740, 2750, 2760, 2770, 2780, 2790, 2800, 2810, 2820, 2830, 2840, 2850,
  2860, 2870, 2880, 2890, 2900, 2910, 2920, 5130, 5140, 5150, 5160, 5170,
  5180, 5190, 5200, 5210, 5220, 5230, 5240, 5250, 5260, 5270, 5280, 5290,
  5300, 5310, 5320, 5330, 5340, 5350, 5360, 5370, 5380, 5390, 5400, 5410,
  5420, 5430, 5440, 5450, 5460, 5470, 5480, 5490, 5500, 5510, 5520, 5530,
  5540, 5550, 5560, 5570, 5580, 5590, 5600, 5610, 5620, 5630, 5640, 5650,
  5660, 5670, 5680, 5690, 5700, 5710, 5720, 5730, 5740, 5750, 5760, 5770,
  5780, 5790, 5800, 5810, 5820, 5830, 5840, 5850, 10250, 10260, 10270,
  10280, 10290, 10300, 10310, 10320, 10330, 10340, 10350, 10360, 10370,
  10380, 10390, 10400, 10410, 10420, 10430, 10440, 10450, 10460, 10470,
  10480, 10490, 10500, 10510, 10520, 10530, 10540, 10550, 10560, 10570,
  10580, 10590, 10600, 10610, 10620, 10630, 10640, 10650, 10660, 10670,
  10680, 10690, 10700, 10710, 10720, 10730, 10740, 10750, 10760, 10770,
  10780, 10790, 10800, 10810, 10820, 10830, 10840, 10850, 10860, 10870,
  10880, 10890, 10900, 10910, 10920, 10930, 10940, 10950, 10960, 10970,
  10980, 10990, 11000, 11010, 11020, 11030, 11040, 11050, 11060, 11070,
  11080, 11090, 11100, 11110, 11120, 11130, 11140, 11150, 11160, 11170,
  11180, 11190, 11200, 11210, 11220, 11230, 11240, 11250, 11260, 11270,
  11280, 11290, 11300, 11310, 11320, 11330, 11340, 11350, 11360, 11370,
  11380, 11390, 11400, 11410, 11420, 11430, 11440, 11450, 11460, 11470,
  11480, 11490, 11500, 11510, 11520, 11530, 11540, 11550, 11560, 11570,
  11580, 11590, 11600, 11610, 11620, 11630, 11640, 11650, 11660, 11670,
  11680, 11690, 11700 }

\* int(self.cwnd * self.beta)
IntTimesBeta(cwnd, beta) ==
  IF beta = DefaultBeta /\ cwnd \in BetaProductRoundsDown
    THEN (cwnd * beta) \div 10 - 1
    ELSE (cwnd * beta) \div 10

Max(a, b) == IF a >= b THEN a ELSE b

Infinity == [inf |-> TRUE, v |-> 0]
Finite(n) == [inf |-> FALSE, v |-> n]

\* self.cwnd < self.ssthresh
Below(cwnd, ssthresh) == ssthresh.inf \/ cwnd < ssthresh.v

VARIABLES
  cc_mss,        \* CongestionController.mss
  cc_beta,       \* CongestionController.beta, in tenths
  cc_min_cwnd,   \* CongestionController.min_cwnd
  cc_cwnd,       \* CongestionController.cwnd
  cc_ssthresh,   \* CongestionController.ssthresh: Infinity or Finite(n)
  cc_origin,     \* CongestionController.origin_point
  cc_last_time,  \* CongestionController.last_congestion_time
  cc_lock,       \* CongestionController.lock: 0 free, else the thread holding it
  cc_pc,         \* per thread: "idle", or "update_cwnd" inside on_ack
  cc_losses,     \* history: the number of on_loss calls
  now            \* time.time()

ccVars == <<cc_mss, cc_beta, cc_min_cwnd, cc_cwnd, cc_ssthresh, cc_origin,
            cc_last_time, cc_lock, cc_pc, cc_losses>>

\* CongestionController(mss, config)
CCInitWith(mss, config) ==
  /\ cc_mss = mss
  /\ cc_beta = Get(config, "beta", DefaultBeta)
  /\ cc_min_cwnd = Get(config, "min_cwnd", DefaultMinCwndFactor * mss)
  /\ cc_cwnd = Get(config, "initial_cwnd", DefaultCwndFactor * mss)
  /\ cc_ssthresh = IF "initial_ssthresh" \in DOMAIN config
                     THEN Finite(config["initial_ssthresh"])
                     ELSE Infinity
  /\ cc_origin = Get(config, "initial_cwnd", DefaultCwndFactor * mss)
  /\ cc_last_time = 0
  /\ cc_lock = 0
  /\ cc_pc = [t \in Threads |-> "idle"]
  /\ cc_losses = 0

CCInit == \E config \in CCConfigs : CCInitWith(DefaultMss, config)

\* the controller as a value, for the callers that fold over it
CCState == [cwnd |-> cc_cwnd, ssthresh |-> cc_ssthresh, origin |-> cc_origin,
            last_time |-> cc_last_time, losses |-> cc_losses]

\* on_loss with origin_point assigned after cwnd
OnLossStateOriginLast(c, time) ==
  LET ss == Max(IntTimesBeta(c.cwnd, cc_beta), cc_min_cwnd)
  IN [cwnd |-> ss, ssthresh |-> Finite(ss), origin |-> ss,
      last_time |-> time, losses |-> c.losses + 1]

\* on_loss, the statements under the lock
OnLossState(c, time) ==
  LET ss == Max(IntTimesBeta(c.cwnd, cc_beta), cc_min_cwnd)
  IN [cwnd |-> ss, ssthresh |-> Finite(ss), origin |-> c.cwnd,
      last_time |-> time, losses |-> c.losses + 1]

SetCC(c) ==
  /\ cc_cwnd' = c.cwnd
  /\ cc_ssthresh' = c.ssthresh
  /\ cc_origin' = c.origin
  /\ cc_last_time' = c.last_time
  /\ cc_losses' = c.losses

\* on_ack: in slow start cwnd grows by acked_bytes.  In congestion avoidance
\* on_ack calls _update_cwnd while it holds self.lock, and _update_cwnd
\* enters `with self.lock:` itself: threading.Lock is not reentrant, so the
\* thread waits for the lock it holds and the body of _update_cwnd never runs.
OnAck(t, n) ==
  /\ cc_pc[t] = "idle"
  /\ LockFree(cc_lock)
  /\ IF Below(cc_cwnd, cc_ssthresh)
       THEN /\ cc_cwnd + n <= MaxCwnd
            /\ cc_cwnd' = cc_cwnd + n
            /\ UNCHANGED <<cc_lock, cc_pc>>
       ELSE /\ cc_lock' = t
            /\ cc_pc' = [cc_pc EXCEPT ![t] = "update_cwnd"]
            /\ UNCHANGED cc_cwnd
  /\ UNCHANGED <<cc_mss, cc_beta, cc_min_cwnd, cc_ssthresh, cc_origin,
                 cc_last_time, cc_losses, now>>

\* int(self.origin_point + self.cubic_constant * (t ** 3)) with
\* t = time.time() - self.last_congestion_time, the clock in tenths of a
\* second
CubicTarget(origin, last_time, time) ==
  origin + (DefaultCubicConstant * (time - last_time) * (time - last_time)
              * (time - last_time)) \div 10000

\* _update_cwnd, the statements under the lock
UpdatedCwnd(cwnd, ssthresh, target) ==
  Max(IF Below(cwnd, ssthresh) THEN cwnd + cc_mss ELSE Max(cwnd, target), cc_min_cwnd)

\* _update_cwnd: it takes self.lock itself.  Called on its own (the thread
\* is idle) it runs; called by on_ack (the thread is at "update_cwnd" and
\* holds the lock) it waits for the lock.
UpdateCwnd(t) ==
  /\ cc_pc[t] \in {"idle", "update_cwnd"}
  /\ LockFree(cc_lock)
  /\ UpdatedCwnd(cc_cwnd, cc_ssthresh, CubicTarget(cc_origin, cc_last_time, now)) <= MaxCwnd
  /\ cc_cwnd' = UpdatedCwnd(cc_cwnd, cc_ssthresh, CubicTarget(cc_origin, cc_last_time, now))
  /\ cc_pc' = [cc_pc EXCEPT ![t] = "idle"]
  /\ UNCHANGED <<cc_mss, cc_beta, cc_min_cwnd, cc_ssthresh, cc_origin, cc_last_time,
                 cc_lock, cc_losses, now>>

OnLoss(t) ==
  /\ cc_pc[t] = "idle"
  /\ LockFree(cc_lock)
  /\ cc_losses < MaxLosses
  /\ SetCC(OnLossState(CCState, now))
  /\ UNCHANGED <<cc_mss, cc_beta, cc_min_cwnd, cc_lock, cc_pc, now>>

\* reset
CCReset(t) ==
  /\ cc_pc[t] = "idle"
  /\ LockFree(cc_lock)
  /\ cc_cwnd' = DefaultCwndFactor * cc_mss
  /\ cc_ssthresh' = Infinity
  /\ cc_origin' = DefaultCwndFactor * cc_mss
  /\ cc_last_time' = now
  /\ UNCHANGED <<cc_mss, cc_beta, cc_min_cwnd, cc_lock, cc_pc, cc_losses, now>>

\* time passes
Tick ==
  /\ now + TickStep <= MaxTime
  /\ now' = now + TickStep

-----------------------------------------------------------------------------
(* RetransmissionManager (quic/congestion_control.py).  Every method runs   *)
(* under self.lock from its first to its last statement.                    *)

DefaultMaxRetries == 3
DefaultTimeoutInterval == 5

\* the configurations a manager is constructed with
RtxConfigs == {<<>>, [max_retries |-> 1, timeout_interval |-> 2]}

VARIABLES
  rtx_max_retries,  \* RetransmissionManager.max_retries
  rtx_timeout,      \* RetransmissionManager.timeout_interval, in tenths of a second
  rtx_pending,      \* RetransmissionManager.pending: id -> (packet, timestamp, retries)
  rtx_queue,        \* RetransmissionManager.rtx_queue
  rtx_counter,      \* RetransmissionManager.packet_counter
  rtx_out,          \* what get_retransmission_packets returned last
  rtx_queued,       \* history: id -> how often process_timeouts queued the pending packet
  rtx_dropped,      \* history: the packets process_timeouts dropped, with their count
  rtx_queuedTotal   \* history: how often process_timeouts queued any packet

rtxVars == <<rtx_max_retries, rtx_timeout, rtx_pending, rtx_queue, rtx_counter,
             rtx_out, rtx_queued, rtx_dropped, rtx_queuedTotal>>

\* RetransmissionManager(congestion_controller, max_retries, config)
RtxInitWith(max_retries, config) ==
  /\ rtx_max_retries = Get(config, "max_retries", max_retries)
  /\ rtx_timeout = Get(config, "timeout_interval", DefaultTimeoutInterval)
  /\ rtx_pending = <<>>
  /\ rtx_queue = <<>>
  /\ rtx_counter = 0
  /\ rtx_out = <<>>
  /\ rtx_queued = <<>>
  /\ rtx_dropped = {}
  /\ rtx_queuedTotal = 0

RtxInit == \E config \in RtxConfigs : RtxInitWith(DefaultMaxRetries, config)

\* a function without the key k
Without(f, k) == [x \in (DOMAIN f) \ {k} |-> f[x]]

\* the keys of a dict in insertion order: ids are inserted in increasing order
RECURSIVE InOrder(_)
InOrder(S) ==
  IF S = {} THEN <<>>
  ELSE LET m == CHOOSE x \in S : \A y \in S : x <= y
       IN <<m>> \o InOrder(S \ {m})

AddPacket(p) ==
  /\ rtx_counter < MaxRtxPackets
  /\ rtx_pending' = (rtx_counter :> [packet |-> p, timestamp |-> now, retries |-> 0])
                      @@ rtx_pending
  /\ rtx_queued' = (rtx_counter :> 0) @@ rtx_queued
  /\ rtx_counter' = rtx_counter + 1
  /\ UNCHANGED <<rtx_max_retries, rtx_timeout, rtx_queue, rtx_out, rtx_dropped,
                 rtx_queuedTotal, now>>

MarkAcknowledged(pid) ==
  /\ IF pid \in DOMAIN rtx_pending
       THEN /\ rtx_pending' = Without(rtx_pending, pid)
            /\ rtx_queued' = Without(rtx_queued, pid)
       ELSE UNCHANGED <<rtx_pending, rtx_queued>>
  /\ UNCHANGED <<rtx_max_retries, rtx_timeout, rtx_queue, rtx_counter, rtx_out,
                 rtx_dropped, rtx_queuedTotal, now>>

\* the first branch of the loop body is taken while retries are left
RetriesLeftInclusive(retries) == retries <= rtx_max_retries
RetriesLeft(retries) == retries < rtx_max_retries

\* process_timeouts: the loop body for the pending packet pid, on the state
\* r = (pending, queue, controller, history) the earlier iterations left
TimeoutStep(r, pid) ==
  LET e == r.pending[pid]
  IN IF now - e.timestamp > rtx_timeout /\ RetriesLeft(e.retries)
       THEN [r EXCEPT
               !.pending = [@ EXCEPT ![pid] = [packet |-> e.packet, timestamp |-> now,
                                               retries |-> e.retries + 1]],
               !.queue = Append(@, pid),
               !.cc = OnLossState(@, now),
               !.queued = [@ EXCEPT ![pid] = @ + 1],
               !.total = @ + 1]
     ELSE IF e.retries >= rtx_max_retries
       THEN [r EXCEPT
               !.pending = Without(@, pid),
               !.dropped = @ \cup {[id |-> pid, queued |-> r.queued[pid]]},
               !.queued = Without(@, pid)]
     ELSE r

\* for pid, ... in list(self.pending.items())
RECURSIVE TimeoutLoop(_, _)
TimeoutLoop(r, pids) ==
  IF pids = <<>> THEN r
  ELSE TimeoutLoop(TimeoutStep(r, Head(pids)), Tail(pids))

ProcessTimeouts ==
  LET r == TimeoutLoop([pending |-> rtx_pending, queue |-> rtx_queue, cc |-> CCState,
                        queued |-> rtx_queued, dropped |-> rtx_dropped,
                        total |-> rtx_queuedTotal],
                       InOrder(DOMAIN rtx_pending))
  IN /\ LockFree(cc_lock)
     /\ rtx_pending' = r.pending
     /\ rtx_queue' = r.queue
     /\ SetCC(r.cc)
     /\ rtx_queued' = r.queued
     /\ rtx_dropped' = r.dropped
     /\ rtx_queuedTotal' = r.total
     /\ UNCHANGED <<rtx_max_retries, rtx_timeout, rtx_counter, rtx_out, now>>
     /\ UNCHANGED <<cc_mss, cc_beta, cc_min_cwnd, cc_lock, cc_pc>>

\* get_retransmission_packets: the queue is drained; the ids still pending
\* are returned with their packets
RECURSIVE StillPending(_)
\* the drain without the look into pending: every id of the queue, with its
\* packet if there is one
EveryQueued(q) ==
  [i \in 1..Len(q) |->
     <<q[i], IF q[i] \in DOMAIN rtx_pending THEN rtx_pending[q[i]].packet ELSE <<>>>>]

StillPending(q) ==
  IF q = <<>> THEN <<>>
  ELSE IF Head(q) \in DOMAIN rtx_pending
    THEN <<<<Head(q), rtx_pending[Head(q)].packet>>>> \o StillPending(Tail(q))
    ELSE StillPending(Tail(q))

GetRetransmissionPackets ==
  /\ rtx_out' = StillPending(rtx_queue)
  /\ rtx_queue' = <<>>
  /\ UNCHANGED <<rtx_max_retries, rtx_timeout, rtx_pending, rtx_counter, rtx_queued,
                 rtx_dropped, rtx_queuedTotal, now>>

RtxReset ==
  /\ rtx_pending' = <<>>
  /\ rtx_queue' = <<>>
  /\ rtx_counter' = 0
  /\ rtx_queued' = <<>>
  /\ UNCHANGED <<rtx_max_retries, rtx_timeout, rtx_out, rtx_dropped, rtx_queuedTotal, now>>

-----------------------------------------------------------------------------
(* QUIC packet codec (quic/packet/encoder.py, quic/packet/decoder.py).      *)
(* A packet is a sequence of bytes: marker "QUIC", 4 bytes of payload       *)
(* length (big-endian), 8 bytes of checksum, payload.                       *)

\* b'QUIC'
HEADER_MARKER == <<81, 85, 73, 67>>

\* the byte values payloads are made of, and the payloads handed to the codec
PayloadBytes == {0, 1}
Payloads == UNION {[1..n -> PayloadBytes] : n \in 0..MaxPayloadLen}

\* the values a byte on the wire is overwritten with
WireBytes == (0..(MaxPayloadLen + 1)) \cup {255}

\* n.to_bytes(4, byteorder='big')
ToBytes4(n) == <<(n \div 16777216) % 256, (n \div 65536) % 256, (n \div 256) % 256, n % 256>>

\* int.from_bytes(b, byteorder='big') of at most 4 bytes; a value above
\* 2^31 - 1 reads as 2^31 - 1, which no length in the model reaches either
RECURSIVE FromBytes(_)
FromBytes(b) ==
  IF b = <<>> THEN 0
  ELSE IF Len(b) = 4 /\ b[1] >= 128 THEN 2147483647
  ELSE 256 * FromBytes(SubSeq(b, 1, Len(b) - 1)) + b[Len(b)]

\* hashlib.sha256(payload).digest()[:8].  SHA-256 is taken to be free of
\* collisions on the payloads of the model: the 8 bytes are the length of
\* the payload and its bytes, padded with zeros; for a payload of more than
\* 7 bytes the first of the 8 is the payload itself.
Sha256Prefix(payload) ==
  IF Len(payload) <= 7
  THEN <<Len(payload)>> \o payload \o [i \in 1..(7 - Len(payload)) |-> 0]
  ELSE <<payload>> \o [i \in 1..7 |-> 0]

\* a result that is a value or a raised exception
Returned(v) == [ok |-> TRUE, value |-> v, error |-> "none"]
Raised(e) == [ok |-> FALSE, value |-> <<>>, error |-> e]

\* packet[a:b], with Python's clipping of the bounds (0 <= a)
Slice(s, a, b) ==
  LET hi == IF b < Len(s) THEN b ELSE Len(s)
  IN IF a >= hi THEN <<>> ELSE SubSeq(s, a + 1, hi)

\* encode_quic_packet(payload)
EncodeQuicPacket(payload) ==
  IF payload = <<>> THEN Raised("ValueError")
  ELSE Returned(HEADER_MARKER \o ToBytes4(Len(payload)) \o Sha256Prefix(payload) \o payload)

ChecksumAccepted(payload, checksum) == TRUE
\* computed_checksum != checksum fails the packet
ChecksumMatches(payload, checksum) == Sha256Prefix(payload) = checksum

\* decode_quic_packet(packet)
DecodeQuicPacket(packet) ==
  IF Slice(packet, 0, 4) # HEADER_MARKER THEN Raised("ValueError")
  ELSE IF Len(packet) < 16 THEN Raised("ValueError")
  ELSE LET payload_length == FromBytes(Slice(packet, 4, 8))
           checksum == Slice(packet, 8, 16)
       IN IF Len(packet) - 16 < payload_length THEN Raised("ValueError")
          ELSE LET payload == Slice(packet, 16, 16 + payload_length)
               IN IF ~ChecksumMatches(payload, checksum) THEN Raised("ValueError")
                  ELSE Returned(payload)

VARIABLES
  codec_payload,  \* the payload given to encode_quic_packet
  codec_packet,   \* what encode_quic_packet returned, as it travels on the wire
  codec_changed,  \* history: the field of the packet a byte was changed in
  codec_result    \* what decode_quic_packet returned for codec_packet

codecVars == <<codec_payload, codec_packet, codec_changed, codec_result>>

NotCalled == Raised("not called")

CodecInitWith(payload) ==
  /\ codec_payload = payload
  /\ codec_packet = NotCalled
  /\ codec_changed = "none"
  /\ codec_result = NotCalled

CodecInit == \E payload \in Payloads : CodecInitWith(payload)

CodecEncode ==
  /\ codec_packet = NotCalled
  /\ codec_packet' = EncodeQuicPacket(codec_payload)
  /\ UNCHANGED <<codec_payload, codec_changed, codec_result>>

\* one byte of the packet on the wire is overwritten with another value
ChangeByte(field, first, last) ==
  /\ codec_packet.ok
  /\ codec_changed = "none"
  /\ codec_result = NotCalled
  /\ \E i \in first..last, v \in WireBytes :
       /\ i <= Len(codec_packet.value)
       /\ v # codec_packet.value[i]
       /\ codec_packet' = Returned([codec_packet.value EXCEPT ![i] = v])
  /\ codec_changed' = field
  /\ UNCHANGED <<codec_payload, codec_result>>

ChangeMarker == ChangeByte("marker", 1, 4)
ChangeLength == ChangeByte("length", 5, 8)
ChangeChecksum == ChangeByte("checksum", 9, 16)
ChangePayload == ChangeByte("payload", 17, 16 + MaxPayloadLen)

\* the packet loses its last bytes
Truncate ==
  /\ codec_packet.ok
  /\ codec_changed = "none"
  /\ codec_result = NotCalled
  /\ \E n \in 0..(Len(codec_packet.value) - 1) :
       codec_packet' = Returned(SubSeq(codec_packet.value, 1, n))
  /\ codec_changed' = "truncated"
  /\ UNCHANGED <<codec_payload, codec_result>>

\* bytes follow the packet on the wire
AppendByte ==
  /\ codec_packet.ok
  /\ codec_changed = "none"
  /\ codec_result = NotCalled
  /\ \E v \in WireBytes : codec_packet' = Returned(Append(codec_packet.value, v))
  /\ codec_changed' = "trailing"
  /\ UNCHANGED <<codec_payload, codec_result>>

\* a sender that does not use encode_quic_packet puts a packet with the
\* marker, the length 0 and the checksum of the empty payload on the wire
WireEmptyPayload ==
  /\ codec_packet = NotCalled
  /\ codec_packet' = Returned(HEADER_MARKER \o ToBytes4(0) \o Sha256Prefix(<<>>))
  /\ codec_changed' = "empty"
  /\ UNCHANGED <<codec_payload, codec_result>>

CodecDecode ==
  /\ codec_packet.ok
  /\ codec_result = NotCalled
  /\ codec_result' = DecodeQuicPacket(codec_packet.value)
  /\ UNCHANGED <<codec_payload, codec_packet, codec_changed>>

-----------------------------------------------------------------------------
(* The QUIC managers: QUICManager (quic/quic_manager.py) and QuicManager    *)
(* (quic/manager.py), as their constructors wire them.  Both own a          *)
(* Connection, opened by the constructor, and a SyncEventLoop               *)
(* (event_loop/sync_loop.py) whose run_forever runs in a thread started by  *)
(* the constructor.  QUICManager also owns a CongestionController, a        *)
(* RetransmissionManager and a second thread that runs                      *)
(* _process_retransmissions_loop.  The application calls send_stream,       *)
(* receive_packet and close from one thread.                                *)

QUICManagerClass == "QUICManager"
QuicManagerClass == "QuicManager"
ManagerKinds == {QUICManagerClass, QuicManagerClass}

\* the frames given to send_stream: what they hold, and their length in bytes
MgrFrames == {[data |-> "a", len |-> 100], [data |-> "b", len |-> 20000]}

\* _package_packet(frame): marker, length and checksum are 16 bytes
PackagePacket(frame) == [data |-> frame.data, len |-> frame.len + 16]

\* the keyword parameters RetransmissionManager.process_timeouts declares
ProcessTimeoutsParams == {}

\* Header.decode(payload): the header is the first byte of the payload and
\* names the stream; the rest is the stream frame
HeaderStreamId(payload) == IF payload = <<>> THEN 0 ELSE Head(payload)
HeaderRemaining(payload) == IF payload = <<>> THEN <<>> ELSE Tail(payload)

\* the payloads of the packets that arrive, and the packets: each payload
\* encoded, and encoded with a wrong marker, a wrong length, a wrong
\* checksum, and cut short
MgrPayloads == {<<1, 0>>, <<2, 1>>}
Damaged(pkt) == {[pkt EXCEPT ![1] = 0], [pkt EXCEPT ![8] = pkt[8] + 1],
                 [pkt EXCEPT ![9] = 255], SubSeq(pkt, 1, 10)}
MgrWirePackets ==
  UNION {{EncodeQuicPacket(q).value} \cup Damaged(EncodeQuicPacket(q).value) : q \in MgrPayloads}

VARIABLES
  qm_kind,      \* the class of the manager, "none" when there is no manager
  ev_pc,        \* the thread in SyncEventLoop.run_forever: "start", "loop", "finally", "done"
  ev_running,   \* SyncEventLoop.running
  ev_shutdown,  \* SyncEventLoop.executor has been shut down
  qm_rtx_pc,    \* the thread in _process_retransmissions_loop, "none" for QuicManager
  qm_close_pc,  \* the caller in close(): "idle", "stop", "join", "returned"
  qm_streams,   \* stream_manager._streams: id -> the buffer of the stream
  qm_last,      \* history: the manager call completed last and how it ended
  qm_held       \* history: the packet ids send_stream held back for congestion

qmVars == <<qm_kind, ev_pc, ev_running, ev_shutdown, qm_rtx_pc, qm_close_pc,
            qm_streams, qm_last, qm_held>>

QmNoCall == [op |-> "none", result |-> "None", failed |-> FALSE]

\* the manager right after its constructor: both threads started, neither
\* has run its first statement
QmInitWith(kind) ==
  /\ qm_kind = kind
  /\ ev_pc = IF kind = "none" THEN "none" ELSE "start"
  /\ ev_running = FALSE
  /\ ev_shutdown = FALSE
  /\ qm_rtx_pc = IF kind = QUICManagerClass THEN "while" ELSE "none"
  /\ qm_close_pc = "idle"
  /\ qm_streams = <<>>
  /\ qm_last = QmNoCall
  /\ qm_held = {}

QmInit == \E kind \in ManagerKinds : QmInitWith(kind)

\* Connection after the constructor opened it
ConnOpened ==
  /\ conn_is_open = TRUE
  /\ conn_state = "OPEN"
  /\ conn_sent = <<>>
  /\ conn_received = <<>>
  /\ conn_last = [op |-> "open", result |-> "None"]
  /\ conn_flip = 1
  /\ conn_closeCalled = FALSE

MgrConstructed ==
  /\ mgr_pc = "constructed"
  /\ mgr_err = "none"

QmCompleted(op, result, failed) ==
  qm_last' = [op |-> op, result |-> result, failed |-> failed]

\* run_forever, line 50: self.running = True
EvRunStart ==
  /\ ev_pc = "start"
  /\ ev_running' = TRUE
  /\ ev_pc' = "loop"
  /\ UNCHANGED <<qm_kind, ev_shutdown, qm_rtx_pc, qm_close_pc, qm_streams, qm_last, qm_held>>

\* run_forever, line 52: `while self.running` is left once running is False
EvLoopExit ==
  /\ ev_pc = "loop"
  /\ ~ev_running
  /\ ev_pc' = "finally"
  /\ UNCHANGED <<qm_kind, ev_running, ev_shutdown, qm_rtx_pc, qm_close_pc, qm_streams,
                 qm_last, qm_held>>

\* run_forever, lines 57-58: finally: self.stop()
EvFinally ==
  /\ ev_pc = "finally"
  /\ ev_running' = FALSE
  /\ ev_shutdown' = TRUE
  /\ ev_pc' = "done"
  /\ UNCHANGED <<qm_kind, qm_rtx_pc, qm_close_pc, qm_streams, qm_last, qm_held>>

\* the application creates a stream: stream_manager.create_stream().  No
\* stream is removed here, so the next id is the number of streams plus one.
QmCreateStream ==
  /\ qm_kind = QUICManagerClass
  /\ Cardinality(DOMAIN qm_streams) < MaxStreams
  /\ qm_streams' = qm_streams @@ ((Cardinality(DOMAIN qm_streams) + 1) :> <<>>)
  /\ UNCHANGED <<qm_kind, ev_pc, ev_running, ev_shutdown, qm_rtx_pc, qm_close_pc,
                 qm_last, qm_held>>

\* send_stream(stream_id, frame).  QUICManager registers the packet with the
\* retransmission manager and sends it when can_send(len(packet)) holds;
\* QuicManager sends it at once.  send_packet on a closed connection raises.
QmSendStream(frame) ==
  LET packet == PackagePacket(frame)
      registers == qm_kind = QUICManagerClass
      sends == ~registers \/ packet.len <= cc_cwnd
  IN /\ qm_kind # "none"
     /\ qm_close_pc \in {"idle", "returned"}
     /\ Len(conn_sent) < MaxSent
     /\ IF registers THEN AddPacket(packet) ELSE UNCHANGED <<rtxVars, now>>
     /\ IF sends
          THEN /\ conn_sent' = SentAfter(packet)
               /\ ConnCompleted("send_packet", SendPacketResult(packet))
               /\ QmCompleted("send_stream", SendPacketResult(packet), FALSE)
               /\ UNCHANGED qm_held
          ELSE /\ qm_held' = qm_held \cup {rtx_counter}
               /\ QmCompleted("send_stream", "None", FALSE)
               /\ UNCHANGED <<conn_sent, conn_last, conn_flip>>
     /\ UNCHANGED <<conn_is_open, conn_state, conn_received, conn_closeCalled>>
     /\ UNCHANGED <<qm_kind, ev_pc, ev_running, ev_shutdown, qm_rtx_pc, qm_close_pc,
                    qm_streams>>

\* QUICManager.send_packet(packet), lines 104-105: hands the packet to the
\* connection (Http3Connection.send_request sends its packets this way)
QmSendPacket(packet) ==
  /\ qm_kind = QUICManagerClass
  /\ qm_close_pc \in {"idle", "returned"}
  /\ Len(conn_sent) < MaxSent
  /\ conn_sent' = SentAfter(packet)
  /\ ConnCompleted("send_packet", SendPacketResult(packet))
  /\ QmCompleted("send_packet", SendPacketResult(packet), FALSE)
  /\ UNCHANGED <<conn_is_open, conn_state, conn_received, conn_closeCalled>>
  /\ UNCHANGED <<qm_kind, ev_pc, ev_running, ev_shutdown, qm_rtx_pc, qm_close_pc,
                 qm_streams, qm_held>>

\* receive_packet(packet): decode, parse the header, find the stream, append
\* the rest to its buffer.  QuicManager creates a missing stream, QUICManager
\* logs that it is missing.  Whatever is raised inside is caught by
\* `except Exception` and logged, and receive_packet returns None.
QmReceivePacket(packet) ==
  LET decoded == DecodeQuicPacket(packet)
      stream_id == HeaderStreamId(decoded.value)
      remaining == HeaderRemaining(decoded.value)
  IN /\ qm_kind # "none"
     /\ qm_close_pc \in {"idle", "returned"}
     /\ \A id \in DOMAIN qm_streams : Len(qm_streams[id]) < MaxReceived
     /\ IF ~decoded.ok
          THEN /\ QmCompleted("receive_packet", "None", TRUE)
               /\ UNCHANGED qm_streams
          ELSE /\ QmCompleted("receive_packet", "None", FALSE)
               /\ IF stream_id \in DOMAIN qm_streams
                    THEN qm_streams' = [qm_streams EXCEPT ![stream_id] = @ \o remaining]
                    ELSE IF qm_kind = QuicManagerClass
                      THEN qm_streams' = qm_streams @@ (stream_id :> remaining)
                      ELSE UNCHANGED qm_streams
     /\ UNCHANGED <<qm_kind, ev_pc, ev_running, ev_shutdown, qm_rtx_pc, qm_close_pc, qm_held>>

\* close(), lines 115-116: close the connection if it is open
QmCloseConnection ==
  /\ qm_kind # "none"
  /\ qm_close_pc = "idle"
  /\ IF conn_is_open
       THEN /\ conn_is_open' = FALSE
            /\ conn_state' = "CLOSED"
            /\ conn_closeCalled' = TRUE
            /\ ConnCompleted("close", "None")
       ELSE UNCHANGED <<conn_is_open, conn_state, conn_closeCalled, conn_last, conn_flip>>
  /\ qm_close_pc' = "stop"
  /\ UNCHANGED <<conn_sent, conn_received>>
  /\ UNCHANGED <<qm_kind, ev_pc, ev_running, ev_shutdown, qm_rtx_pc, qm_streams,
                 qm_last, qm_held>>

\* close(), line 117: self.event_loop.stop()
QmCloseStop ==
  /\ qm_close_pc = "stop"
  /\ ev_running' = FALSE
  /\ ev_shutdown' = TRUE
  /\ qm_close_pc' = "join"
  /\ UNCHANGED <<qm_kind, ev_pc, qm_rtx_pc, qm_streams, qm_last, qm_held>>

\* close(), line 118: self._event_loop_thread.join() returns when
\* run_forever has returned
JoinReturns(pc) == pc = "done"

QmCloseJoin ==
  /\ qm_close_pc = "join"
  /\ JoinReturns(ev_pc)
  /\ qm_close_pc' = "returned"
  /\ QmCompleted("close", "None", FALSE)
  /\ UNCHANGED <<qm_kind, ev_pc, ev_running, ev_shutdown, qm_rtx_pc, qm_streams, qm_held>>

\* _process_retransmissions_loop, line 97: while self.connection.is_open
RtxLoopWhile ==
  /\ qm_rtx_pc = "while"
  /\ qm_rtx_pc' = IF conn_is_open THEN "sleep" ELSE "done"
  /\ UNCHANGED <<qm_kind, ev_pc, ev_running, ev_shutdown, qm_close_pc, qm_streams,
                 qm_last, qm_held>>

\* line 98: time.sleep(0.1) returns
RtxLoopSleep ==
  /\ qm_rtx_pc = "sleep"
  /\ qm_rtx_pc' = "timeouts"
  /\ UNCHANGED <<qm_kind, ev_pc, ev_running, ev_shutdown, qm_close_pc, qm_streams,
                 qm_last, qm_held>>

\* get_retransmission_packets on the queue q and the pending map
RECURSIVE QueuedPackets(_, _)
QueuedPackets(q, pending) ==
  IF q = <<>> THEN <<>>
  ELSE IF Head(q) \in DOMAIN pending
    THEN <<<<Head(q), pending[Head(q)].packet>>>> \o QueuedPackets(Tail(q), pending)
    ELSE QueuedPackets(Tail(q), pending)

\* lines 99-102: self.rtx_manager.process_timeouts(timeout_interval=0.5),
\* then send every packet get_retransmission_packets returns.  The call does
\* not bind to process_timeouts(self): the TypeError ends the thread.
RtxLoopBody ==
  LET r == TimeoutLoop([pending |-> rtx_pending, queue |-> rtx_queue, cc |-> CCState,
                        queued |-> rtx_queued, dropped |-> rtx_dropped,
                        total |-> rtx_queuedTotal],
                       InOrder(DOMAIN rtx_pending))
      out == QueuedPackets(r.queue, r.pending)
  IN /\ qm_rtx_pc = "timeouts"
     /\ IF ~BindsTo({"timeout_interval"}, ProcessTimeoutsParams)
          THEN /\ qm_rtx_pc' = "raised"
               /\ UNCHANGED <<rtxVars, cc_cwnd, cc_ssthresh, cc_origin, cc_last_time,
                              cc_losses, conn_sent>>
          ELSE /\ rtx_pending' = r.pending
               /\ rtx_queue' = <<>>
               /\ rtx_out' = out
               /\ rtx_queued' = r.queued
               /\ rtx_dropped' = r.dropped
               /\ rtx_queuedTotal' = r.total
               /\ SetCC(r.cc)
               /\ UNCHANGED <<rtx_max_retries, rtx_timeout, rtx_counter>>
               /\ IF out # <<>> /\ ~conn_is_open
                    THEN /\ qm_rtx_pc' = "raised"
                         /\ UNCHANGED conn_sent
                    ELSE /\ qm_rtx_pc' = "while"
                         /\ conn_sent' = conn_sent \o [i \in 1..Len(out) |-> out[i][2]]
     /\ UNCHANGED <<cc_mss, cc_beta, cc_min_cwnd, cc_lock, cc_pc, now>>
     /\ UNCHANGED <<conn_is_open, conn_state, conn_received, conn_last, conn_flip,
                    conn_closeCalled>>
     /\ UNCHANGED <<qm_kind, ev_pc, ev_running, ev_shutdown, qm_close_pc, qm_streams,
                    qm_last, qm_held>>

-----------------------------------------------------------------------------
(* TLSEncryptor in demo mode (sender/tls_encryptor.py): AES-GCM records,    *)
(* each the 8-byte sequence number followed by the ciphertext.  One sender  *)
(* calls encrypt.                                                           *)

\* the 12-byte static IVs of the configurations
StaticIVs == {[i \in 1..12 |-> 0], [i \in 1..12 |-> IF i = 12 THEN 3 ELSE 0]}

\* the packets given to encrypt
EncPackets == {"Packet One", "Packet Two"}

\* how a call goes: AESGCM.encrypt raises, udp_sender.send raises, or neither
EncFaults == {"none", "aesgcm", "send"}

\* a ^ b on bytes
RECURSIVE Xor(_, _)
Xor(a, b) ==
  IF a = 0 THEN b
  ELSE IF b = 0 THEN a
  ELSE ((a + b) % 2) + 2 * Xor(a \div 2, b \div 2)

\* n.to_bytes(k, byteorder="big")
RECURSIVE ToBytes(_, _)
ToBytes(n, k) == IF k = 0 THEN <<>> ELSE Append(ToBytes(n \div 256, k - 1), n % 256)

\* _compute_nonce: the IV XOR the 12-byte sequence number
ComputeNonce(iv, seq) == [i \in 1..12 |-> Xor(iv[i], ToBytes(seq, 12)[i])]

\* finally: self._sequence_number += 1
SequenceAfterSuccessOnly(seq, fault) == IF fault = "none" THEN seq + 1 ELSE seq
SequenceAfter(seq, fault) == seq + 1

VARIABLES
  enc_iv,       \* TLSEncryptor.config.iv
  enc_seq,      \* TLSEncryptor._sequence_number
  enc_sent,     \* the records udp_sender.send took
  enc_records,  \* history: the records built, sent or not
  enc_calls,    \* history: the number of encrypt calls
  enc_last      \* history: how the last encrypt call ended

encVars == <<enc_iv, enc_seq, enc_sent, enc_records, enc_calls, enc_last>>

EncInitWith(iv) ==
  /\ enc_iv = iv
  /\ enc_seq = 0
  /\ enc_sent = <<>>
  /\ enc_records = <<>>
  /\ enc_calls = 0
  /\ enc_last = "none"

EncInit == \E iv \in StaticIVs : EncInitWith(iv)

\* encrypt(quic_packet) in demo mode
Encrypt(packet, fault) ==
  LET record == [seq |-> ToBytes(enc_seq, 8),
                 nonce |-> ComputeNonce(enc_iv, enc_seq),
                 packet |-> packet]
  IN /\ enc_calls < MaxEncrypts
     /\ enc_records' = IF fault = "aesgcm" THEN enc_records ELSE Append(enc_records, record)
     /\ enc_sent' = IF fault = "none" THEN Append(enc_sent, record) ELSE enc_sent
     /\ enc_last' = IF fault = "none" THEN "None" ELSE "EncryptionError"
     /\ enc_seq' = SequenceAfter(enc_seq, fault)
     /\ enc_calls' = enc_calls + 1
     /\ UNCHANGED enc_iv

-----------------------------------------------------------------------------
(* QPACK (http3/qpack/encoder.py, http3/qpack/decoder.py) and its Huffman   *)
(* table (http3/qpack/huffman/constants.py).  A string is the sequence of   *)
(* its UTF-8 bytes, a header is a pair (name, value), a header block is a   *)
(* sequence of bytes, and a dict of headers is the set of its items.        *)

\* STATIC_TABLE: (name, value) pairs, each string the sequence of its bytes
STATIC_TABLE == <<
  <<<<58, 97, 117, 116, 104, 111, 114, 105, 116, 121>>, <<>>>>,
  <<<<58, 109, 101, 116, 104, 111, 100>>, <<71, 69, 84>>>>,
  <<<<58, 109, 101, 116, 104, 111, 100>>, <<80, 79, 83, 84>>>>,
  <<<<58, 112, 97, 116, 104>>, <<47>>>>,
  <<<<58, 112, 97, 116, 104>>, <<47, 105, 110, 100, 101, 120, 46, 104, 116, 109, 108>>>>,
  <<<<58, 115, 99, 104, 101, 109, 101>>, <<104, 116, 116, 112, 115>>>>,
  <<<<58, 115, 99, 104, 101, 109, 101>>, <<104, 116, 116, 112>>>>,
  <<<<58, 115, 116, 97, 116, 117, 115>>, <<50, 48, 48>>>>,
  <<<<58, 115, 116, 97, 116, 117, 115>>, <<50, 48, 52>>>>,
  <<<<58, 115, 116, 97, 116, 117, 115>>, <<50, 48, 54>>>>,
  <<<<58, 115, 116, 97, 116, 117, 115>>, <<51, 48, 52>>>>,
  <<<<58, 115, 116, 97, 116, 117, 115>>, <<52, 48, 48>>>>,
  <<<<58, 115, 116, 97, 116, 117, 115>>, <<52, 48, 52>>>>,
  <<<<58, 115, 116, 97, 116, 117, 115>>, <<53, 48, 48>>>>,
  <<<<97, 99, 99, 101, 112, 116, 45, 99, 104, 97, 114, 115, 101, 116>>, <<>>>>,
  <<<<97, 99, 99, 101, 112, 116, 45, 101, 110, 99, 111, 100, 105, 110, 103>>, <<103, 122, 105, 112, 44, 32, 100, 101, 102, 108, 97, 116, 101, 44, 32, 98, 114>>>>,
  <<<<97, 99, 99, 101, 112, 116, 45, 108, 97, 110, 103, 117, 97, 103, 101>>, <<>>>>,
  <<<<97, 99, 99, 101, 112, 116, 45, 114, 97, 110, 103, 101, 115>>, <<>>>>,
  <<<<97, 99, 99, 101, 112, 116>>, <<>>>>,
  <<<<97, 99, 99, 101, 115, 115, 45, 99, 111, 110, 116, 114, 111, 108, 45, 97, 108, 108, 111, 119, 45, 111, 114, 105, 103, 105, 110>>, <<>>>>,
  <<<<97, 103, 101>>, <<>>>>,
  <<<<97, 108, 108, 111, 119>>, <<>>>>,
  <<<<97, 117, 116, 104, 111, 114, 105, 122, 97, 116, 105, 111, 110>>, <<>>>>,
  <<<<99, 97, 99, 104, 101, 45, 99, 111, 110, 116, 114, 111, 108>>, <<>>>>,
  <<<<99, 111, 110, 116, 101, 110, 116, 45, 100, 105, 115, 112, 111, 115, 105, 116, 105, 111, 110>>, <<>>>>,
  <<<<99, 111, 110, 116, 101, 110, 116, 45, 101, 110, 99, 111, 100, 105, 110, 103>>, <<>>>>,
  <<<<99, 111, 110, 116, 101, 110, 116, 45, 108, 97, 110, 103, 117, 97, 103, 101>>, <<>>>>,
  <<<<99, 111, 110, 116, 101, 110, 116, 45, 108, 101, 110, 103, 116, 104>>, <<>>>>,
  <<<<99, 111, 110, 116, 101, 110, 116, 45, 108, 111, 99, 97, 116, 105, 111, 110>>, <<>>>>,
  <<<<99, 111, 110, 116, 101, 110, 116, 45, 114, 97, 110, 103, 101>>, <<>>>>,
  <<<<99, 111, 110, 116, 101, 110, 116, 45, 116, 121, 112, 101>>, <<>>>>,
  <<<<99, 111, 111, 107, 105, 101>>, <<>>>>,
  <<<<100, 97, 116, 101>>, <<>>>>,
  <<<<101, 116, 97, 103>>, <<>>>>,
  <<<<101, 120, 112, 101, 99, 116>>, <<>>>>,
  <<<<101, 120, 112, 105, 114, 101, 115>>, <<>>>>,
  <<<<102, 114, 111, 109>>, <<>>>>,
  <<<<104, 111, 115, 116>>, <<>>>>,
  <<<<105, 102, 45, 109, 97, 116, 99, 104>>, <<>>>>,
  <<<<105, 102, 45, 109, 111, 100, 105, 102, 105, 101, 100, 45, 115, 105, 110, 99, 101>>, <<>>>>,
  <<<<105, 102, 45, 110, 111, 110, 101, 45, 109, 97, 116, 99, 104>>, <<>>>>,
  <<<<105, 102, 45, 114, 97, 110, 103, 101>>, <<>>>>,
  <<<<105, 102, 45, 117, 110, 109, 111, 100, 105, 102, 105, 101, 100, 45, 115, 105, 110, 99, 101>>, <<>>>>,
  <<<<108, 97, 115, 116, 45, 109, 111, 100, 105, 102, 105, 101, 100>>, <<>>>>,
  <<<<108, 105, 110, 107>>, <<>>>>,
  <<<<108, 111, 99, 97, 116, 105, 111, 110>>, <<>>>>,
  <<<<109, 97, 120, 45, 102, 111, 114, 119, 97, 114, 100, 115>>, <<>>>>,
  <<<<112, 114, 111, 120, 121, 45, 97, 117, 116, 104, 101, 110, 116, 105, 99, 97, 116, 101>>, <<>>>>,
  <<<<112, 114, 111, 120, 121, 45, 97, 117, 116, 104, 111, 114, 105, 122, 97, 116, 105, 111, 110>>, <<>>>>,
  <<<<114, 97, 110, 103, 101>>, <<>>>>,
  <<<<114, 101, 102, 101, 114, 101, 114>>, <<>>>>,
  <<<<114, 101, 102, 114, 101, 115, 104>>, <<>>>>,
  <<<<114, 101, 116, 114, 121, 45, 97, 102, 116, 101, 114>>, <<>>>>,
  <<<<115, 101, 114, 118, 101, 114>>, <<>>>>,
  <<<<115, 101, 116, 45, 99, 111, 111, 107, 105, 101>>, <<>>>>,
  <<<<115, 116, 114, 105, 99, 116, 45, 116, 114, 97, 110, 115, 112, 111, 114, 116, 45, 115, 101, 99, 117, 114, 105, 116, 121>>, <<>>>>,
  <<<<116, 114, 97, 110, 115, 102, 101, 114, 45, 101, 110, 99, 111, 100, 105, 110, 103>>, <<>>>>,
  <<<<117, 115, 101, 114, 45, 97, 103, 101, 110, 116>>, <<>>>>,
  <<<<118, 97, 114, 121>>, <<>>>>,
  <<<<118, 105, 97>>, <<>>>>,
  <<<<119, 119, 119, 45, 97, 117, 116, 104, 101, 110, 116, 105, 99, 97, 116, 101>>, <<>>>>,
  <<<<100, 105, 115, 112, 111, 115, 105, 116, 105, 111, 110>>, <<>>>>,
  <<<<99, 111, 110, 116, 101, 110, 116, 45, 115, 101, 99, 117, 114, 105, 116, 121, 45, 112, 111, 108, 105, 99, 121>>, <<>>>>,
  <<<<99, 111, 110, 116, 101, 110, 116, 45, 116, 114, 97, 110, 115, 102, 101, 114, 45, 101, 110, 99, 111, 100, 105, 110, 103>>, <<>>>>,
  <<<<120, 45, 99, 111, 110, 116, 101, 110, 116, 45, 116, 121, 112, 101, 45, 111, 112, 116, 105, 111, 110, 115>>, <<>>>>,
  <<<<120, 45, 102, 114, 97, 109, 101, 45, 111, 112, 116, 105, 111, 110, 115>>, <<>>>>,
  <<<<120, 45, 120, 115, 115, 45, 112, 114, 111, 116, 101, 99, 116, 105, 111, 110>>, <<>>>>,
  <<<<100, 110>>, <<>>>>,
  <<<<100, 111, 119, 110, 108, 105, 110, 107>>, <<>>>>,
  <<<<101, 97, 114, 108, 121, 45, 100, 97, 116, 97>>, <<>>>>,
  <<<<101, 99, 116>>, <<>>>>,
  <<<<114, 116, 116>>, <<>>>>,
  <<<<115, 101, 114, 118, 101, 114, 45, 116, 105, 109, 105, 110, 103>>, <<>>>>,
  <<<<116, 105, 109, 105, 110, 103, 45, 97, 108, 108, 111, 119, 45, 111, 114, 105, 103, 105, 110>>, <<>>>>,
  <<<<117, 112, 103, 114, 97, 100, 101>>, <<>>>>,
  <<<<118, 105, 97, 50>>, <<>>>>,
  <<<<120, 45, 112, 111, 119, 101, 114, 101, 100, 45, 98, 121>>, <<>>>>,
  <<<<120, 45, 99, 111, 114, 114, 101, 108, 97, 116, 105, 111, 110, 45, 105, 100>>, <<>>>>,
  <<<<120, 45, 114, 101, 113, 117, 101, 115, 116, 45, 105, 100>>, <<>>>>,
  <<<<120, 45, 115, 116, 114, 105, 99, 116, 45, 116, 114, 97, 110, 115, 112, 111, 114, 116, 45, 115, 101, 99, 117, 114, 105, 116, 121>>, <<>>>>,
  <<<<120, 45, 102, 111, 114, 119, 97, 114, 100, 101, 100, 45, 102, 111, 114>>, <<>>>>,
  <<<<120, 45, 102, 111, 114, 119, 97, 114, 100, 101, 100, 45, 112, 114, 111, 116, 111>>, <<>>>>,
  <<<<120, 45, 114, 101, 97, 108, 45, 105, 112>>, <<>>>>,
  <<<<116, 114, 97, 99, 101, 112, 97, 114, 101, 110, 116>>, <<>>>>,
  <<<<116, 114, 97, 99, 101, 115, 116, 97, 116, 101>>, <<>>>>,
  <<<<112, 114, 105, 111, 114, 105, 116, 121>>, <<>>>>,
  <<<<100, 110, 116>>, <<>>>>,
  <<<<115, 101, 99, 45, 102, 101, 116, 99, 104, 45, 115, 105, 116, 101>>, <<>>>>,
  <<<<115, 101, 99, 45, 102, 101, 116, 99, 104, 45, 109, 111, 100, 101>>, <<>>>>,
  <<<<115, 101, 99, 45, 102, 101, 116, 99, 104, 45, 100, 101, 115, 116>>, <<>>>>,
  <<<<115, 101, 99, 45, 102, 101, 116, 99, 104, 45, 117, 115, 101, 114>>, <<>>>>,
  <<<<111, 114, 105, 103, 105, 110>>, <<>>>>,
  <<<<117, 112, 103, 114, 97, 100, 101, 45, 105, 110, 115, 101, 99, 117, 114, 101, 45, 114, 101, 113, 117, 101, 115, 116, 115>>, <<>>>>,
  <<<<112, 114, 111, 109, 112, 116>>, <<>>>>,
  <<<<112, 117, 114, 112, 111, 115, 101>>, <<>>>>,
  <<<<115, 101, 99, 45, 99, 104, 45, 117, 97>>, <<>>>> >>

\* HPACK_HUFFMAN_TABLE: (code, bit_length) of the symbols 0..255, in order
HPACK_HUFFMAN_TABLE == <<
  <<8184, 13>>, <<8388568, 23>>, <<268435426, 28>>, <<268435427, 28>>,
  <<268435428, 28>>, <<268435429, 28>>, <<268435430, 28>>, <<268435431, 28>>,
  <<268435432, 28>>, <<16777194, 24>>, <<1073741820, 30>>, <<268435433, 28>>,
  <<268435434, 28>>, <<1073741821, 30>>, <<268435435, 28>>, <<268435436, 28>>,
  <<268435437, 28>>, <<268435438, 28>>, <<268435439, 28>>, <<268435440, 28>>,
  <<268435441, 28>>, <<268435442, 28>>, <<1073741822, 30>>, <<268435443, 28>>,
  <<268435444, 28>>, <<268435445, 28>>, <<268435446, 28>>, <<268435447, 28>>,
  <<268435448, 28>>, <<268435449, 28>>, <<268435450, 28>>, <<268435451, 28>>,
  <<20, 6>>, <<1016, 10>>, <<1017, 10>>, <<4090, 12>>,
  <<8185, 13>>, <<21, 6>>, <<248, 8>>, <<2042, 11>>,
  <<1018, 10>>, <<1019, 10>>, <<249, 8>>, <<2043, 11>>,
  <<250, 8>>, <<22, 6>>, <<23, 6>>, <<24, 6>>,
  <<0, 5>>, <<1, 5>>, <<2, 5>>, <<25, 6>>,
  <<26, 6>>, <<27, 6>>, <<28, 6>>, <<29, 6>>,
  <<30, 6>>, <<31, 6>>, <<92, 7>>, <<251, 8>>,
  <<32764, 15>>, <<32, 6>>, <<4091, 12>>, <<1020, 10>>,
  <<8186, 13>>, <<33, 6>>, <<93, 7>>, <<94, 7>>,
  <<95, 7>>, <<96, 7>>, <<97, 7>>, <<98, 7>>,
  <<99, 7>>, <<100, 7>>, <<101, 7>>, <<102, 7>>,
  <<103, 7>>, <<104, 7>>, <<105, 7>>, <<106, 7>>,
  <<107, 7>>, <<108, 7>>, <<109, 7>>, <<110, 7>>,
  <<111, 7>>, <<112, 7>>, <<113, 7>>, <<114, 7>>,
  <<252, 8>>, <<115, 7>>, <<253, 8>>, <<8187, 13>>,
  <<524272, 19>>, <<8188, 13>>, <<16380, 14>>, <<34, 6>>,
  <<32765, 15>>, <<3, 5>>, <<35, 6>>, <<4, 5>>,
  <<36, 6>>, <<5, 5>>, <<37, 6>>, <<38, 6>>,
  <<39, 6>>, <<6, 5>>, <<116, 7>>, <<117, 7>>,
  <<40, 6>>, <<41, 6>>, <<42, 6>>, <<7, 5>>,
  <<43, 6>>, <<118, 7>>, <<44, 6>>, <<8, 5>>,
  <<9, 5>>, <<45, 6>>, <<119, 7>>, <<120, 7>>,
  <<121, 7>>, <<122, 7>>, <<123, 7>>, <<32766, 15>>,
  <<2044, 11>>, <<16381, 14>>, <<8189, 13>>, <<2, 5>>,
  <<1048544, 20>>, <<1048545, 20>>, <<1048542, 20>>, <<1048546, 20>>,
  <<1048547, 20>>, <<1048548, 20>>, <<1048549, 20>>, <<1048550, 20>>,
  <<1048551, 20>>, <<1048479, 20>>, <<1048538, 20>>, <<1048539, 20>>,
  <<16776652, 20>>, <<1048541, 20>>, <<16776670, 20>>, <<1048543, 20>>,
  <<1048552, 20>>, <<1048553, 20>>, <<1048556, 20>>, <<1048557, 20>>,
  <<1048558, 20>>, <<1048559, 20>>, <<1048554, 20>>, <<1048555, 20>>,
  <<1048556, 20>>, <<1048557, 20>>, <<1048559, 20>>, <<1048560, 20>>,
  <<1048561, 20>>, <<1048562, 20>>, <<1048563, 20>>, <<1048564, 20>>,
  <<1048565, 20>>, <<1048566, 20>>, <<1048567, 20>>, <<1048568, 20>>,
  <<1048569, 20>>, <<1048570, 20>>, <<1048571, 20>>, <<1048572, 20>>,
  <<1048573, 20>>, <<1048574, 20>>, <<1048575, 20>>, <<1048576, 20>>,
  <<1048577, 20>>, <<1048578, 20>>, <<1048579, 20>>, <<1048580, 20>>,
  <<1048581, 20>>, <<1048582, 20>>, <<1048583, 20>>, <<1048584, 20>>,
  <<1048585, 20>>, <<1048586, 20>>, <<1048587, 20>>, <<1048588, 20>>,
  <<1048589, 20>>, <<1048590, 20>>, <<1048591, 20>>, <<1048592, 20>>,
  <<1048593, 20>>, <<1048594, 20>>, <<1048595, 20>>, <<1048596, 20>>,
  <<1048597, 21>>, <<1048598, 21>>, <<1048599, 21>>, <<1048600, 21>>,
  <<1048601, 21>>, <<1048602, 21>>, <<1048603, 21>>, <<1048604, 21>>,
  <<1048605, 21>>, <<1048606, 21>>, <<1048607, 21>>, <<1048608, 21>>,
  <<1048609, 21>>, <<1048610, 21>>, <<1048611, 21>>, <<1048612, 21>>,
  <<1048613, 21>>, <<1048614, 21>>, <<1048615, 21>>, <<1048616, 21>>,
  <<1048617, 21>>, <<1048618, 21>>, <<1048619, 21>>, <<1048620, 21>>,
  <<1048621, 21>>, <<1048622, 21>>, <<1048623, 21>>, <<1048624, 21>>,
  <<1048625, 21>>, <<1048626, 21>>, <<1048627, 21>>, <<1048628, 21>>,
  <<1048629, 21>>, <<1048630, 21>>, <<1048631, 21>>, <<1048632, 21>>,
  <<1048633, 21>>, <<1048634, 21>>, <<1048635, 21>>, <<1048636, 21>>,
  <<1048637, 21>>, <<1048638, 21>>, <<1048639, 21>>, <<1048640, 21>>,
  <<1048641, 21>>, <<1048642, 21>>, <<1048643, 21>>, <<1048644, 21>>,
  <<1048645, 21>>, <<1048646, 21>>, <<1048647, 21>>, <<1048648, 21>>,
  <<1048649, 21>>, <<1048650, 21>>, <<1048651, 21>>, <<1048652, 21>>,
  <<1048653, 21>>, <<1048654, 21>>, <<1048655, 21>>, <<1048656, 21>>,
  <<1048657, 21>>, <<1048658, 21>>, <<1048659, 21>>, <<1048660, 21>> >>

\* the names the specification calls sensitive: "authorization", "cookie"
SensitiveNames ==
  { <<97, 117, 116, 104, 111, 114, 105, 122, 97, 116, 105, 111, 110>>,
    <<99, 111, 111, 107, 105, 101>> }

\* the headers given to encode: (":method", "GET"), ("cookie", ""),
\* ("x-id", "7"), ("x-del", "\x7f"), ("authorization", "abc")
QpackHeaders ==
  { <<<<58, 109, 101, 116, 104, 111, 100>>, <<71, 69, 84>>>>,
    <<<<99, 111, 111, 107, 105, 101>>, <<>>>>,
    <<<<120, 45, 105, 100>>, <<55>>>>,
    <<<<120, 45, 100, 101, 108>>, <<127>>>>,
    <<<<97, 117, 116, 104, 111, 114, 105, 122, 97, 116, 105, 111, 110>>, <<97, 98, 99>>>> }

\* a dict of headers in insertion order: the names are distinct
HeaderMapsOfLen(n) ==
  {h \in [1..n -> QpackHeaders] : \A i, j \in 1..n : i # j => h[i][1] # h[j][1]}

HeaderMaps == UNION {HeaderMapsOfLen(n) : n \in 0..MaxHeaders}

\* the configured max_dynamic_table_size: the default 4096, one that holds
\* two of the literal headers, one smaller than ("authorization", "abc")
QpackMaxSizes == {4096, 90, 40}


\* headers[name] = value
DictSet(headers, name, value) == {p \in headers : p[1] # name} \cup {<<name, value>>}

\* dict(headers)
RECURSIVE DictOf(_)
DictOf(headers) ==
  IF headers = <<>> THEN {}
  ELSE DictSet(DictOf(SubSeq(headers, 1, Len(headers) - 1)),
               headers[Len(headers)][1], headers[Len(headers)][2])

\* the while loop of encode_integer
RECURSIVE Continuation(_)
Continuation(value) ==
  IF value >= 128 THEN <<(value % 128) + 128>> \o Continuation(value \div 128)
  ELSE <<value>>

\* encode_integer(value, prefix_bits), value >= 0
EncodeInteger(value, prefix_bits) ==
  IF value < 2^prefix_bits - 1 THEN <<value>>
  ELSE <<2^prefix_bits - 1>> \o Continuation(value - (2^prefix_bits - 1))

\* the while ... else loop of decode_integer; idx counts the bytes consumed
RECURSIVE DecodeContinuation(_, _, _, _)
DecodeContinuation(data, idx, value, m) ==
  IF idx > Len(data) THEN Raised("ValueError")
  ELSE IF data[idx] < 128 THEN Returned(<<value + data[idx] * 2^m, idx>>)
  ELSE DecodeContinuation(data, idx + 1, value + (data[idx] % 128) * 2^m, m + 7)

\* decode_integer(data, prefix_bits): (value, bytes_consumed)
DecodeInteger(data, prefix_bits) ==
  IF data = <<>> THEN Raised("ValueError")
  ELSE IF data[1] % 2^prefix_bits < 2^prefix_bits - 1
  THEN Returned(<<data[1] % 2^prefix_bits, 1>>)
  ELSE DecodeContinuation(data, 2, data[1] % 2^prefix_bits, 0)

\* the low bit_length bits of the code of an entry (code, bit_length), most
\* significant first
CodeBits(entry) == [i \in 1..entry[2] |-> (entry[1] \div 2^(entry[2] - i)) % 2]

\* HUFFMAN_TABLE[sym], as bits
HuffmanCodes == [sym \in 0..255 |-> CodeBits(HPACK_HUFFMAN_TABLE[sym + 1])]

\* the codes of the symbols of s, concatenated
RECURSIVE HuffmanBits(_)
HuffmanBits(s) ==
  IF s = <<>> THEN <<>> ELSE HuffmanCodes[s[1]] \o HuffmanBits(Tail(s))

\* the final byte is filled with 1-bits
PadOnes(bits) == bits \o [i \in 1..((8 - (Len(bits) % 8)) % 8) |-> 1]

PackBits(bits) ==
  [k \in 1..(Len(bits) \div 8) |->
     bits[8 * k - 7] * 128 + bits[8 * k - 6] * 64 + bits[8 * k - 5] * 32
     + bits[8 * k - 4] * 16 + bits[8 * k - 3] * 8 + bits[8 * k - 2] * 4
     + bits[8 * k - 1] * 2 + bits[8 * k]]

UnpackBits(data) ==
  [i \in 1..(8 * Len(data)) |-> (data[((i - 1) \div 8) + 1] \div 2^(7 - ((i - 1) % 8))) % 2]

\* huffman_encode(s)
HuffmanEncode(s) == PackBits(PadOnes(HuffmanBits(s)))

IsPrefix(p, s) == Len(p) <= Len(s) /\ SubSeq(s, 1, Len(p)) = p

MinOrNone(S) == IF S = {} THEN -1 ELSE MinOf(S)

\* the first symbol of the table whose code starts the bits; -1 when there
\* is none
FirstMatch(codes, bits) == MinOrNone({sym \in 0..255 : IsPrefix(codes[sym], bits)})

\* the walk of the table on the bit stream; what is left when no code
\* matches must be padding: fewer than 8 bits, all 1
RECURSIVE HuffmanWalk(_, _, _)
HuffmanWalkOn(codes, bits, out, sym) ==
  IF sym >= 0
  THEN HuffmanWalk(codes, SubSeq(bits, Len(codes[sym]) + 1, Len(bits)), Append(out, sym))
  ELSE IF Len(bits) < 8 /\ \A i \in DOMAIN bits : bits[i] = 1
  THEN Returned(out)
  ELSE Raised("HuffmanDecodeError")

HuffmanWalk(codes, bits, out) ==
  IF bits = <<>> THEN Returned(out)
  ELSE HuffmanWalkOn(codes, bits, out, FirstMatch(codes, bits))

\* huffman_decode(data)
HuffmanDecode(data) == HuffmanWalk(HuffmanCodes, UnpackBits(data), <<>>)

\* the headers {":method": "GET", ":path": "/x", "x-custom": "v"}
RoundTripHeaders ==
  << <<<<58, 109, 101, 116, 104, 111, 100>>, <<71, 69, 84>>>>,
     <<<<58, 112, 97, 116, 104>>, <<47, 120>>>>,
     <<<<120, 45, 99, 117, 115, 116, 111, 109>>, <<118>>>> >>

\* huffman_encode and huffman_decode on the strings of QpackHeaders and of
\* RoundTripHeaders, evaluated once
QpackStrings == UNION {{h[1], h[2]} : h \in QpackHeaders \cup Range(RoundTripHeaders)}
HuffmanEncodeTable == {<<s, HuffmanEncode(s)>> : s \in QpackStrings}
HuffmanDecodeTable == {<<p[2], HuffmanDecode(p[2])>> : p \in HuffmanEncodeTable}

Hits(table, key) == {p[2] : p \in {q \in table : q[1] = key}}
HitOr(hits, other) == IF hits = {} THEN other ELSE CHOOSE v \in hits : TRUE

HuffmanEncodeOf(s) == HitOr(Hits(HuffmanEncodeTable, s), HuffmanEncode(s))

HuffmanDecodeOf(data) == HitOr(Hits(HuffmanDecodeTable, data), HuffmanDecode(data))

\* header_field_size(name, value)
HeaderFieldSize(name, value) == Len(name) + Len(value) + 32

\* the 1-based position of (name, value) in a table, 0 when it is absent
IndexIn(table, name, value) ==
  LET hits == {i \in DOMAIN table : table[i] = <<name, value>>}
  IN IF hits = {} THEN 0 ELSE MinOf(hits)

\* the two loops of _find_header_field
FindIn(static_table, dynamic_table, name, value) ==
  LET s == IndexIn(static_table, name, value)
      d == IndexIn(dynamic_table, name, value)
  IN IF s > 0 THEN s
     ELSE IF d > 0 THEN Len(static_table) + d
     ELSE 0

\* a search that takes a static entry with the name when none has the value
FindHeaderFieldByName(dynamic_table, name, value) ==
  LET exact == FindIn(STATIC_TABLE, dynamic_table, name, value)
      named == {i \in DOMAIN STATIC_TABLE : STATIC_TABLE[i][1] = name}
  IN IF exact > 0 \/ named = {} THEN exact ELSE MinOf(named)
\* _find_header_field: the 1-based index in the combined table, 0 for
\* (False, 0)
FindHeaderField(dynamic_table, name, value) ==
  FindIn(STATIC_TABLE, dynamic_table, name, value)

EvictionNeededIgnoringEntry(current, required, max) == current > max
\* current_dynamic_table_size + required_space > max_dynamic_table_size
EvictionNeeded(current, required, max) == current + required > max

\* the while loop of _evict_dynamic_entries: pop() takes the last entry
RECURSIVE EvictDynamicEntries(_, _, _, _)
EvictDynamicEntries(table, size, required, max) ==
  IF EvictionNeeded(size, required, max) /\ table # <<>>
  THEN EvictDynamicEntries(SubSeq(table, 1, Len(table) - 1),
                           size - HeaderFieldSize(table[Len(table)][1], table[Len(table)][2]),
                           required, max)
  ELSE [table |-> table, size |-> size]

\* _add_to_dynamic_table(name, value); failed is the RuntimeError that
\* _evict_dynamic_entries raises after its loop
AddToDynamicTable(table, size, name, value, max) ==
  LET required == HeaderFieldSize(name, value)
      evicted == EvictDynamicEntries(table, size, required, max)
  IN IF required > max
     THEN [table |-> evicted.table, size |-> evicted.size, failed |-> TRUE]
     ELSE [table |-> <<<<name, value>>>> \o evicted.table,
           size |-> evicted.size + required, failed |-> FALSE]

\* flag = 0x00
LiteralFlag == 0

\* the bytes of _encode_literal
LiteralBytes(encoded_name, encoded_value) ==
  <<LiteralFlag>> \o EncodeInteger(Len(encoded_name), 5) \o encoded_name
    \o EncodeInteger(Len(encoded_value), 7) \o encoded_value

\* _encode_literal(name, value)
EncodeLiteral(name, value) == LiteralBytes(HuffmanEncodeOf(name), HuffmanEncodeOf(value))

\* encoded_index[0] |= 0x80
SetHighBit(encoded_index) == <<encoded_index[1] + 128>> \o Tail(encoded_index)

\* encode_integer(index, 6) with the high bit set
EncodeIndexed(index) == SetHighBit(EncodeInteger(index, 6))

\* a length and that many Huffman-coded bytes, read at data[pos:]: the
\* string and the position after it
StringRead(next, text) ==
  IF ~text.ok THEN text ELSE Returned([text |-> text.value, next |-> next])

StringAfter(data, pos, length) ==
  IF ~length.ok THEN length
  ELSE StringRead(pos + length.value[2] + length.value[1],
                  HuffmanDecodeOf(Slice(data, pos + length.value[2],
                                        pos + length.value[2] + length.value[1])))

ReadString(data, pos, prefix_bits) ==
  StringAfter(data, pos, DecodeInteger(Slice(data, pos, Len(data)), prefix_bits))

LiteralRead(pos, name, value) ==
  IF ~value.ok THEN value
  ELSE Returned([name |-> name, value |-> value.value.text,
                 consumed |-> value.value.next - pos])

LiteralAfterName(data, pos, name) ==
  IF ~name.ok THEN name
  ELSE LiteralRead(pos, name.value.text, ReadString(data, name.value.next, 7))

\* _decode_literal(data, pos): the header and the bytes consumed
DecodeLiteral(data, pos) == LiteralAfterName(data, pos, ReadString(data, pos + 1, 5))

\* STATIC_TABLE[index - 1], or self.dynamic_table[dynamic_index - 1]
EntryAt(static_table, dynamic_table, index) ==
  IF index = 0 THEN static_table[Len(static_table)]
  ELSE IF index <= Len(static_table) THEN static_table[index]
  ELSE dynamic_table[index - Len(static_table)]

DictSetEntry(headers, entry) == DictSet(headers, entry[1], entry[2])

\* the while loop of QPACKDecoder.decode from pos on
RECURSIVE DecodeLoop(_, _, _, _, _)
DecodeIndexedField(static_table, header_block, pos, dynamic_table, headers, index) ==
  IF ~index.ok THEN index
  ELSE IF index.value[1] - Len(static_table) > Len(dynamic_table)
  THEN Raised("ValueError")
  ELSE DecodeLoop(static_table, header_block, pos + index.value[2], dynamic_table,
                  DictSetEntry(headers, EntryAt(static_table, dynamic_table, index.value[1])))

DecodeLiteralField(static_table, header_block, pos, dynamic_table, headers, literal) ==
  IF ~literal.ok THEN literal
  ELSE DecodeLoop(static_table, header_block, pos + literal.value.consumed,
                  <<<<literal.value.name, literal.value.value>>>> \o dynamic_table,
                  DictSet(headers, literal.value.name, literal.value.value))

DecodeLoop(static_table, header_block, pos, dynamic_table, headers) ==
  IF pos >= Len(header_block) THEN Returned(headers)
  ELSE IF header_block[pos + 1] >= 128
  THEN DecodeIndexedField(static_table, header_block, pos, dynamic_table, headers,
         DecodeInteger(<<header_block[pos + 1] % 128>>
                         \o Slice(header_block, pos + 1, Len(header_block)), 6))
  ELSE DecodeLiteralField(static_table, header_block, pos, dynamic_table, headers,
         DecodeLiteral(header_block, pos))

\* QPACKDecoder().decode(header_block)
DecodeHeaderBlock(header_block) == DecodeLoop(STATIC_TABLE, header_block, 0, <<>>, {})

\* one pass of the for loop of encode; st holds the encoder's table and
\* size, the header block and the representations built so far, the last
\* insert, and the exception that ended the loop
EncodeIndexedField(st, name, value, encoded_index) ==
  [st EXCEPT !.block = @ \o encoded_index,
             !.fields = Append(@, [name |-> name, value |-> value, kind |-> "indexed",
                                   first |-> encoded_index[1]])]

EncodeLiteralField(st, name, value, literal, added) ==
  [table |-> added.table,
   size |-> added.size,
   block |-> st.block \o literal,
   fields |-> Append(st.fields, [name |-> name, value |-> value, kind |-> "literal",
                                 first |-> literal[1]]),
   insert |-> [called |-> TRUE, before |-> st.table, entry |-> <<name, value>>,
               after |-> added.table, failed |-> added.failed],
   error |-> IF added.failed THEN "RuntimeError" ELSE "none"]

EncodeHeader(st, max, name, value, index) ==
  IF index > 0 THEN EncodeIndexedField(st, name, value, EncodeIndexed(index))
  ELSE EncodeLiteralField(st, name, value, EncodeLiteral(name, value),
                          AddToDynamicTable(st.table, st.size, name, value, max))

\* the for loop of encode from headers[i] on
RECURSIVE EncodeLoop(_, _, _, _)
EncodeLoop(headers, i, max, st) ==
  IF i > Len(headers) \/ st.error # "none" THEN st
  ELSE EncodeLoop(headers, i + 1, max,
                  EncodeHeader(st, max, headers[i][1], headers[i][2],
                               FindHeaderField(st.table, headers[i][1], headers[i][2])))

\* the audit of encode: every header of the input is in the decoded dict
AuditFails(headers, decoded) ==
  \E i \in DOMAIN headers : <<headers[i][1], headers[i][2]>> \notin decoded

Audited(headers, block, decoded) ==
  IF ~decoded.ok THEN Raised(decoded.error)
  ELSE IF AuditFails(headers, decoded.value) THEN Raised("RuntimeError")
  ELSE Returned(block)

\* what encode returns or raises once its for loop has ended in st
EncodeResult(headers, st, auditing) ==
  IF st.error # "none" THEN Raised(st.error)
  ELSE IF ~auditing THEN Returned(st.block)
  ELSE Audited(headers, st.block, DecodeHeaderBlock(st.block))

VARIABLES
  qp_max,       \* QPACKEncoder.max_dynamic_table_size
  qp_auditing,  \* QPACKEncoder.auditing
  qp_table,     \* QPACKEncoder.dynamic_table
  qp_size,      \* QPACKEncoder.current_dynamic_table_size
  qp_call,      \* history: "none", or whether the last encode call was the "first" or a "later" one
  qp_headers,   \* history: the headers of the last encode call
  qp_block,     \* history: what the last encode call returned or raised
  qp_fields,    \* history: the representations in the block the last encode call returned
  qp_insert,    \* history: the last _add_to_dynamic_table call
  qp_decoded,   \* what a fresh decoder made of qp_block
  huff_input,   \* the string given to huffman_encode
  huff_encoded, \* what huffman_encode returned
  huff_decoded  \* what huffman_decode made of huff_encoded

qpackVars == <<qp_max, qp_auditing, qp_table, qp_size, qp_call, qp_headers, qp_block,
               qp_fields, qp_insert, qp_decoded>>
huffVars == <<huff_input, huff_encoded, huff_decoded>>

NoInsert == [called |-> FALSE, before |-> <<>>, entry |-> <<>>, after |-> <<>>, failed |-> FALSE]

\* QPACKEncoder(max_dynamic_table_size, auditing)
QpackInitWith(max, auditing) ==
  /\ qp_max = max
  /\ qp_auditing = auditing
  /\ qp_table = <<>>
  /\ qp_size = 0
  /\ qp_call = "none"
  /\ qp_headers = <<>>
  /\ qp_block = NotCalled
  /\ qp_fields = <<>>
  /\ qp_insert = NoInsert
  /\ qp_decoded = NotCalled

QpackInit == \E max \in QpackMaxSizes, auditing \in BOOLEAN : QpackInitWith(max, auditing)

\* encode(headers)
QpackEncode(headers) ==
  \E st \in {EncodeLoop(headers, 1, qp_max,
                        [table |-> qp_table, size |-> qp_size, block |-> <<>>,
                         fields |-> <<>>, insert |-> qp_insert, error |-> "none"])} :
    \E result \in {EncodeResult(headers, st, qp_auditing)} :
      /\ qp_table' = st.table
      /\ qp_size' = st.size
      /\ qp_insert' = st.insert
      /\ qp_call' = IF qp_call = "none" THEN "first" ELSE "later"
      /\ qp_headers' = headers
      /\ qp_block' = result
      /\ qp_fields' = IF result.ok THEN st.fields ELSE <<>>
      /\ qp_decoded' = NotCalled
      /\ UNCHANGED <<qp_max, qp_auditing>>

\* QPACKDecoder().decode(block) on the block the last encode call returned
QpackDecode ==
  /\ qp_block.ok
  /\ qp_decoded.error = "not called"
  /\ qp_decoded' = DecodeHeaderBlock(qp_block.value)
  /\ UNCHANGED <<qp_max, qp_auditing, qp_table, qp_size, qp_call, qp_headers, qp_block,
                 qp_fields, qp_insert>>

\* the symbols of the strings given to huffman_encode: "2", "a", DEL,
\* and the bytes 0x8c, 0xc3, 0xa9
HuffSymbols == {50, 97, 127, 140, 195, 169}

HuffInputs == UNION {[1..n -> HuffSymbols] : n \in 0..MaxHuffLen}

HuffInitWith(b) ==
  /\ huff_input = b
  /\ huff_encoded = NotCalled
  /\ huff_decoded = NotCalled

HuffInit == \E b \in HuffInputs : HuffInitWith(b)

HuffEncodeCall ==
  /\ huff_encoded.error = "not called"
  /\ huff_encoded' = Returned(HuffmanEncode(huff_input))
  /\ UNCHANGED <<huff_input, huff_decoded>>

HuffDecodeCall ==
  /\ huff_encoded.ok
  /\ huff_decoded.error = "not called"
  /\ huff_decoded' = HuffmanDecode(huff_encoded.value)
  /\ UNCHANGED <<huff_input, huff_encoded>>

-----------------------------------------------------------------------------
(* HTTP3Connection (http3/connection/http3_connection.py) over the          *)
(* StreamManager of http3/streams/stream_manager.py.  One thread calls      *)
(* route_incoming_frame and receive_response; the application creates and   *)
(* closes streams on the same StreamManager.                                *)

\* frame types: one without a handler of its own (handle_unknown_frame),
\* and SETTINGS
UNKNOWN_FRAME == 1
SETTINGS_FRAME == 17
H3FrameTypes == {UNKNOWN_FRAME, SETTINGS_FRAME}

\* the stream data behind the 4-byte stream id
H3StreamData == {<<>>, <<7>>}

\* payloads: shorter than a stream id ("a=b" and a byte that is no UTF-8
\* among them), or a stream id and stream data
H3Payloads ==
  {<<>>, <<97, 61, 98>>, <<255>>} \cup
  {ToBytes4(id) \o data : id \in 1..(MaxH3Streams + 1), data \in H3StreamData}

\* a frame: 1 byte of type, 2 bytes of payload length (big-endian), payload
H3Frame(frame_type, payload) ==
  <<frame_type, Len(payload) \div 256, Len(payload) % 256>> \o payload

\* the packets given to route_incoming_frame: the frames, a packet shorter
\* than a frame header, one shorter than its stated length, and one with a
\* byte behind its frame
H3Packets ==
  {H3Frame(t, p) : t \in H3FrameTypes, p \in H3Payloads}
    \cup {<<UNKNOWN_FRAME>>, <<UNKNOWN_FRAME, 0, 5, 0>>, <<UNKNOWN_FRAME, 0, 0, 9>>}

\* the parameters create_stream declares besides self
CreateStreamParams == {}

\* a call with n arguments binds only when that many parameters are declared
TakesArguments(n, params) == n <= Cardinality(params)

\* how create_stream(stream_id) ends before its body runs
CreateStreamWithId == IF TakesArguments(1, CreateStreamParams) THEN "None" ELSE "TypeError"

\* payload.decode("utf-8") of a payload whose bytes are ASCII or 0xff
DecodesAsUtf8(payload) == \A i \in DOMAIN payload : payload[i] < 128

\* dispatch_map of route_incoming_frame: the handler of each known frame
\* type.  No handle_data_frame (0x0A) and no handle_priority_frame (0x0E) is
\* defined in http3/frames; frames of these two types are not routed here.
DispatchMap ==
  (7 :> "handle_cancel_frame") @@ (8 :> "handle_close_frame") @@
  (9 :> "handle_control_frame") @@ (11 :> "handle_error_frame") @@
  (12 :> "handle_goaway_frame") @@ (13 :> "handle_ping_frame") @@
  (15 :> "handle_priority_update_frame") @@ (16 :> "handle_reset_frame") @@
  (17 :> "handle_settings_frame")

\* dispatch_map.get(frame_type, handle_unknown_frame)
HandlerFor(frame_type) ==
  IF frame_type \in DOMAIN DispatchMap THEN DispatchMap[frame_type]
  ELSE "handle_unknown_frame"

\* the class of the payload route_incoming_frame hands to a handler:
\* packet[3:3+payload_length] is a bytes object
PayloadClass == "bytes"

\* handle_cancel_frame(stream_id) raises ValueError unless its argument is an
\* int above 0
HandleCancelFrameRaises(class, payload) == class # "int" \/ FromBytes(payload) <= 0

\* handle_settings_frame raises ValueError on an empty payload, on bytes
\* that are no UTF-8 and on a pair without "=" (no payload of the model
\* holds ";" or white space)
HandleSettingsFrameRaises(payload) ==
  payload = <<>> \/ ~DecodesAsUtf8(payload) \/ 61 \notin Range(payload)

\* the ValueError of a handler that reads `head` bytes of fields and decodes
\* the rest as UTF-8 (CLOSE and ERROR 4, CONTROL 1, GOAWAY 8, PING 0); the
\* fields of PRIORITY_UPDATE (5) and RESET (8) are only read, the rest is
\* ignored
FieldsThenTextRaises(head, payload) ==
  Len(payload) < head \/ ~DecodesAsUtf8(SubSeq(payload, head + 1, Len(payload)))

\* whether the handler raises for the payload; handle_unknown_frame takes
\* every payload
HandlerRaisesFor(handler, payload) ==
  CASE handler = "handle_cancel_frame" -> HandleCancelFrameRaises(PayloadClass, payload)
    [] handler = "handle_close_frame" -> FieldsThenTextRaises(4, payload)
    [] handler = "handle_control_frame" -> FieldsThenTextRaises(1, payload)
    [] handler = "handle_error_frame" -> FieldsThenTextRaises(4, payload)
    [] handler = "handle_goaway_frame" -> FieldsThenTextRaises(8, payload)
    [] handler = "handle_ping_frame" -> FieldsThenTextRaises(0, payload)
    [] handler = "handle_priority_update_frame" -> Len(payload) < 5
    [] handler = "handle_reset_frame" -> Len(payload) < 8
    [] handler = "handle_settings_frame" -> HandleSettingsFrameRaises(payload)
    [] OTHER -> FALSE

HandlerRaises(frame_type, payload) == HandlerRaisesFor(HandlerFor(frame_type), payload)

\* the dictionaries given to negotiate_settings, by their keys
H3Settings == {{}, {"max_header_list_size"}}

\* self._response is None
None == [ok |-> FALSE, value |-> <<>>, error |-> "None"]

VARIABLES
  h3_streams,   \* StreamManager._streams: id -> the Stream's state and buffer
  h3_next,      \* StreamManager._next_stream_id
  h3_response,  \* HTTP3Connection._response
  h3_settings,  \* HTTP3Connection.settings
  h3_open,      \* quic_manager.connection.is_open
  h3_failed,    \* history: the ways route_incoming_frame has refused a packet
  h3_routes,    \* history: the number of route_incoming_frame calls
  h3_last,      \* history: the last route_incoming_frame call, and the streams and _response it left
  h3_received   \* history: what the last receive_response call returned

h3Vars == <<h3_streams, h3_next, h3_response, h3_settings, h3_open, h3_failed,
           h3_routes, h3_last, h3_received>>

NoRoute ==
  [called |-> FALSE, packet |-> <<>>, payload |-> <<>>, result |-> "none",
   streams |-> <<>>, response |-> None]

\* HTTP3Connection(quic_manager) on a new StreamManager
H3Init ==
  /\ h3_streams = <<>>
  /\ h3_next = 1
  /\ h3_response = None
  /\ h3_settings = {}
  /\ h3_open = TRUE
  /\ h3_failed = {}
  /\ h3_routes = 0
  /\ h3_last = NoRoute
  /\ h3_received = NotCalled

\* stream_manager.create_stream()
H3CreateStream ==
  /\ h3_next <= MaxH3Streams
  /\ h3_streams' = (h3_next :> [state |-> OpenResult(IDLE), buffer |-> <<>>]) @@ h3_streams
  /\ h3_next' = h3_next + 1
  /\ UNCHANGED <<h3_response, h3_settings, h3_open, h3_failed, h3_routes, h3_last, h3_received>>

\* stream_manager.close_stream(stream_id)
H3CloseStream(stream_id) ==
  /\ stream_id \in DOMAIN h3_streams
  /\ h3_streams' = Without(h3_streams, stream_id)
  /\ UNCHANGED <<h3_next, h3_response, h3_settings, h3_open, h3_failed, h3_routes, h3_last, h3_received>>

\* payload = packet[3:3+payload_length]
PayloadLength(packet) == packet[2] * 256 + packet[3]
FramePayload(packet) == Slice(packet, 3, 3 + PayloadLength(packet))

\* what route_incoming_frame does with the payload of a frame its handler
\* took: the streams and _response it leaves, and how it ends
ForwardToStream(streams, response, stream_id, stream_payload) ==
  IF stream_id \notin DOMAIN streams
  THEN [streams |-> streams, response |-> response, result |-> CreateStreamWithId]
  ELSE IF streams[stream_id].state # OPEN
  THEN [streams |-> streams, response |-> response, result |-> "RuntimeError"]
  ELSE [streams |-> [streams EXCEPT ![stream_id].buffer = @ \o stream_payload],
        response |-> Returned(stream_payload), result |-> "None"]

RoutePayload(streams, response, payload) ==
  IF Len(payload) >= 4
  THEN ForwardToStream(streams, response, FromBytes(SubSeq(payload, 1, 4)),
                       SubSeq(payload, 5, Len(payload)))
  ELSE [streams |-> streams, response |-> Returned(payload), result |-> "None"]

\* why route_incoming_frame raises HTTP3ConnectionError for the packet, or
\* "none": the packet is shorter than a frame header, shorter than its
\* stated length, or its handler raises
Refusal(packet) ==
  IF Len(packet) < 3 THEN "short"
  ELSE IF Len(packet) < 3 + PayloadLength(packet) THEN "incomplete"
  ELSE IF HandlerRaises(packet[1], FramePayload(packet)) THEN "handler"
  ELSE "none"

\* route_incoming_frame(packet) without the check of the stated length
RouteWithoutLengthCheck(streams, response, packet) ==
  IF Len(packet) < 3 \/ HandlerRaises(packet[1], FramePayload(packet))
  THEN [streams |-> streams, response |-> response, result |-> "HTTP3ConnectionError"]
  ELSE RoutePayload(streams, response, FramePayload(packet))

\* route_incoming_frame(packet)
RouteIncomingFrame(streams, response, packet) ==
  IF Refusal(packet) # "none"
  THEN [streams |-> streams, response |-> response, result |-> "HTTP3ConnectionError"]
  ELSE RoutePayload(streams, response, FramePayload(packet))

H3RouteIncomingFrame(packet) ==
  /\ h3_routes < MaxRoutes
  /\ \E after \in {RouteIncomingFrame(h3_streams, h3_response, packet)} :
       /\ h3_streams' = after.streams
       /\ h3_response' = after.response
       /\ h3_last' = [called |-> TRUE, packet |-> packet,
                      payload |-> IF after.result = "HTTP3ConnectionError" THEN <<>>
                                  ELSE FramePayload(packet),
                      result |-> after.result, streams |-> after.streams,
                      response |-> after.response]
       /\ h3_failed' = IF after.result = "HTTP3ConnectionError"
                        THEN h3_failed \cup {Refusal(packet)} ELSE h3_failed
  /\ h3_routes' = h3_routes + 1
  /\ UNCHANGED <<h3_next, h3_settings, h3_open, h3_received>>

\* receive_response()
H3ReceiveResponse ==
  /\ h3_received' = Returned(h3_response)
  /\ UNCHANGED <<h3_streams, h3_next, h3_response, h3_settings, h3_open, h3_failed,
                 h3_routes, h3_last>>

\* negotiate_settings(settings)
H3NegotiateSettings(settings) ==
  /\ h3_settings' = settings
  /\ UNCHANGED <<h3_streams, h3_next, h3_response, h3_open, h3_failed, h3_routes,
                 h3_last, h3_received>>

\* close(): the QUIC connection is closed if it is open, and close_all()
\* removes every stream from the manager
H3Close ==
  /\ h3_open' = FALSE
  /\ h3_streams' = <<>>
  /\ UNCHANGED <<h3_next, h3_response, h3_settings, h3_failed, h3_routes, h3_last,
                 h3_received>>

-----------------------------------------------------------------------------
(* SyncEventLoop (utils/event_loop/sync_loop.py): a ThreadPoolExecutor of   *)
(* max_workers threads behind schedule_task, run_forever and stop.  The    *)
(* executor is the standard library's: submit() queues the task and starts *)
(* a thread when no worker is idle and fewer than max_workers exist; a     *)
(* worker takes tasks from the FIFO queue, and exits once the executor is  *)
(* shut down and the queue is empty; shutdown(wait=True) joins the threads.*)

\* max_workers of the loops of the model
LoopWorkers == {1, 2}

\* the indices of the threads an executor of the model can start
WorkerIds == UNION {1..max_workers : max_workers \in LoopWorkers}

\* a worker thread: idle, exited, or running a task
IDLE_WORKER == [state |-> "idle", task |-> 0]
EXITED_WORKER == [state |-> "exited", task |-> 0]
RunningWorker(task) == [state |-> "running", task |-> task]

VARIABLES
  lp_max,        \* ThreadPoolExecutor._max_workers
  lp_running,    \* SyncEventLoop.running
  lp_shutdown,   \* ThreadPoolExecutor._shutdown
  lp_queue,      \* ThreadPoolExecutor._work_queue: the tasks waiting, oldest first
  lp_idle,       \* ThreadPoolExecutor._idle_semaphore
  lp_workers,    \* ThreadPoolExecutor._threads: the state of every thread started
  lp_tasks,      \* SyncEventLoop._tasks: the futures kept
  lp_next,       \* the id of the next task (tasks are numbered as submitted)
  lp_sched_pc,   \* the caller of schedule_task: "idle", or "append" after submit()
  lp_rf_pc,      \* the thread in run_forever: "start", "loop", "finally", "joining", "done"
  lp_stop_pc,    \* the caller of stop(): "idle", "shutdown", "joining", "returned"
  lp_runs,       \* history: how often each task was started
  lp_done,       \* history: the tasks that have finished
  lp_stop_seen,  \* history: the tasks submitted when stop() was called
  lp_last        \* history: how the last schedule_task ended

loopVars == <<lp_max, lp_running, lp_shutdown, lp_queue, lp_idle, lp_workers, lp_tasks,
              lp_next, lp_sched_pc, lp_rf_pc, lp_stop_pc, lp_runs, lp_done,
              lp_stop_seen, lp_last>>

\* SyncEventLoop(max_workers); run_forever is the target of a thread
LoopInitWith(max_workers) ==
  /\ lp_max = max_workers
  /\ lp_running = FALSE
  /\ lp_shutdown = FALSE
  /\ lp_queue = <<>>
  /\ lp_idle = 0
  /\ lp_workers = <<>>
  /\ lp_tasks = <<>>
  /\ lp_next = 1
  /\ lp_sched_pc = "idle"
  /\ lp_rf_pc = "start"
  /\ lp_stop_pc = "idle"
  /\ lp_runs = [t \in 1..MaxTasks |-> 0]
  /\ lp_done = {}
  /\ lp_stop_seen = {}
  /\ lp_last = "none"

LoopInit == \E max_workers \in LoopWorkers : LoopInitWith(max_workers)

\* executor.submit starts a thread whenever no worker is idle
StartsThreadUnbounded(idle, threads, max_workers) == idle = 0

\* executor.submit starts a thread when it cannot take the idle semaphore
\* and fewer than max_workers threads exist
StartsThread(idle, threads, max_workers) == idle = 0 /\ threads < max_workers

\* schedule_task, line 41: future = self.executor.submit(func, *args, **kwargs);
\* submit raises RuntimeError after shutdown
ScheduleSubmit ==
  /\ lp_sched_pc = "idle"
  /\ lp_next <= MaxTasks
  /\ IF lp_shutdown
     THEN /\ lp_last' = "RuntimeError"
          /\ UNCHANGED <<lp_queue, lp_idle, lp_workers, lp_next, lp_sched_pc>>
     ELSE /\ lp_queue' = Append(lp_queue, lp_next)
          /\ lp_next' = lp_next + 1
          /\ lp_idle' = IF lp_idle > 0 THEN lp_idle - 1 ELSE 0
          /\ lp_workers' = IF StartsThread(lp_idle, Len(lp_workers), lp_max)
                           THEN Append(lp_workers, IDLE_WORKER) ELSE lp_workers
          /\ lp_sched_pc' = "append"
          /\ UNCHANGED lp_last
  /\ UNCHANGED <<lp_max, lp_running, lp_shutdown, lp_tasks, lp_rf_pc, lp_stop_pc,
                 lp_runs, lp_done, lp_stop_seen>>

\* schedule_task, lines 42-44: the future is appended under the lock and returned
ScheduleAppend ==
  /\ lp_sched_pc = "append"
  /\ lp_tasks' = Append(lp_tasks, lp_next - 1)
  /\ lp_sched_pc' = "idle"
  /\ lp_last' = "Future"
  /\ UNCHANGED <<lp_max, lp_running, lp_shutdown, lp_queue, lp_idle, lp_workers, lp_next,
                 lp_rf_pc, lp_stop_pc, lp_runs, lp_done, lp_stop_seen>>

\* a worker thread takes the oldest task of the queue and starts it
WorkerTake(w) ==
  /\ w \in DOMAIN lp_workers
  /\ lp_workers[w] = IDLE_WORKER
  /\ lp_queue # <<>>
  /\ lp_workers' = [lp_workers EXCEPT ![w] = RunningWorker(Head(lp_queue))]
  /\ lp_queue' = Tail(lp_queue)
  /\ lp_runs' = [lp_runs EXCEPT ![Head(lp_queue)] = @ + 1]
  /\ UNCHANGED <<lp_max, lp_running, lp_shutdown, lp_idle, lp_tasks, lp_next, lp_sched_pc,
                 lp_rf_pc, lp_stop_pc, lp_done, lp_stop_seen, lp_last>>

\* the task returns (or raises: the future keeps the exception); the worker
\* releases the idle semaphore
WorkerFinish(w) ==
  /\ w \in DOMAIN lp_workers
  /\ lp_workers[w].state = "running"
  /\ lp_done' = lp_done \cup {lp_workers[w].task}
  /\ lp_workers' = [lp_workers EXCEPT ![w] = IDLE_WORKER]
  /\ lp_idle' = lp_idle + 1
  /\ UNCHANGED <<lp_max, lp_running, lp_shutdown, lp_queue, lp_tasks, lp_next, lp_sched_pc,
                 lp_rf_pc, lp_stop_pc, lp_runs, lp_stop_seen, lp_last>>

\* a worker finds the queue empty and the executor shut down, and exits
WorkerExit(w) ==
  /\ w \in DOMAIN lp_workers
  /\ lp_workers[w] = IDLE_WORKER
  /\ lp_queue = <<>>
  /\ lp_shutdown
  /\ lp_workers' = [lp_workers EXCEPT ![w] = EXITED_WORKER]
  /\ UNCHANGED <<lp_max, lp_running, lp_shutdown, lp_queue, lp_idle, lp_tasks, lp_next,
                 lp_sched_pc, lp_rf_pc, lp_stop_pc, lp_runs, lp_done, lp_stop_seen, lp_last>>

\* shutdown(wait=True) has joined every thread
AllJoined(workers) == \A w \in DOMAIN workers : workers[w] = EXITED_WORKER

\* run_forever, line 50: self.running = True
RunStart ==
  /\ lp_rf_pc = "start"
  /\ lp_running' = TRUE
  /\ lp_rf_pc' = "loop"
  /\ UNCHANGED <<lp_max, lp_shutdown, lp_queue, lp_idle, lp_workers, lp_tasks, lp_next,
                 lp_sched_pc, lp_stop_pc, lp_runs, lp_done, lp_stop_seen, lp_last>>

\* the futures that are not done, in order
RECURSIVE NotDone(_, _)
NotDone(tasks, done) ==
  IF tasks = <<>> THEN <<>>
  ELSE IF Head(tasks) \in done THEN NotDone(Tail(tasks), done)
  ELSE <<Head(tasks)>> \o NotDone(Tail(tasks), done)

\* run_forever, lines 52-56: one round of the loop that drops a finished future
RunPrune ==
  /\ lp_rf_pc = "loop"
  /\ lp_running
  /\ lp_tasks' = NotDone(lp_tasks, lp_done)
  /\ lp_tasks' # lp_tasks
  /\ UNCHANGED <<lp_max, lp_running, lp_shutdown, lp_queue, lp_idle, lp_workers, lp_next,
                 lp_sched_pc, lp_rf_pc, lp_stop_pc, lp_runs, lp_done, lp_stop_seen, lp_last>>

\* run_forever, line 52: `while self.running` is left once running is False
RunExit ==
  /\ lp_rf_pc = "loop"
  /\ ~lp_running
  /\ lp_rf_pc' = "finally"
  /\ UNCHANGED <<lp_max, lp_running, lp_shutdown, lp_queue, lp_idle, lp_workers, lp_tasks,
                 lp_next, lp_sched_pc, lp_stop_pc, lp_runs, lp_done, lp_stop_seen, lp_last>>

\* run_forever, lines 57-58: finally: self.stop(), up to the join
RunFinally ==
  /\ lp_rf_pc = "finally"
  /\ lp_running' = FALSE
  /\ lp_shutdown' = TRUE
  /\ lp_rf_pc' = "joining"
  /\ UNCHANGED <<lp_max, lp_queue, lp_idle, lp_workers, lp_tasks, lp_next, lp_sched_pc,
                 lp_stop_pc, lp_runs, lp_done, lp_stop_seen, lp_last>>

\* run_forever returns when the threads are joined
RunJoined ==
  /\ lp_rf_pc = "joining"
  /\ AllJoined(lp_workers)
  /\ lp_rf_pc' = "done"
  /\ UNCHANGED <<lp_max, lp_running, lp_shutdown, lp_queue, lp_idle, lp_workers, lp_tasks,
                 lp_next, lp_sched_pc, lp_stop_pc, lp_runs, lp_done, lp_stop_seen, lp_last>>

\* stop(), line 64: self.running = False
StopCall ==
  /\ lp_stop_pc = "idle"
  /\ lp_running' = FALSE
  /\ lp_stop_pc' = "shutdown"
  /\ lp_stop_seen' = 1..(lp_next - 1)
  /\ UNCHANGED <<lp_max, lp_shutdown, lp_queue, lp_idle, lp_workers, lp_tasks, lp_next,
                 lp_sched_pc, lp_rf_pc, lp_runs, lp_done, lp_last>>

\* stop(), line 65: self.executor.shutdown(wait=True), up to the join
StopShutdown ==
  /\ lp_stop_pc = "shutdown"
  /\ lp_shutdown' = TRUE
  /\ lp_stop_pc' = "joining"
  /\ UNCHANGED <<lp_max, lp_running, lp_queue, lp_idle, lp_workers, lp_tasks, lp_next,
                 lp_sched_pc, lp_rf_pc, lp_runs, lp_done, lp_stop_seen, lp_last>>

\* stop() returns when the threads are joined
StopJoined ==
  /\ lp_stop_pc = "joining"
  /\ AllJoined(lp_workers)
  /\ lp_stop_pc' = "returned"
  /\ UNCHANGED <<lp_max, lp_running, lp_shutdown, lp_queue, lp_idle, lp_workers, lp_tasks,
                 lp_next, lp_sched_pc, lp_rf_pc, lp_runs, lp_done, lp_stop_seen, lp_last>>

-----------------------------------------------------------------------------
(* The send and receive pipelines (sender/encoder.py, sender/http3_sender.py,*)
(* sender/tls_encryptor.py, receiver/tls_decryptor.py,                      *)
(* receiver/quic_receiver.py, receiver/http3_receiver.py,                   *)
(* receiver/decoder.py).  AES-GCM is taken to be correct: a ciphertext      *)
(* decrypts to its plaintext under the nonce it was made with, and under    *)
(* no other.                                                                *)

\* "content", the one header name Encoder.encode uses
CONTENT_HEADER == <<99, 111, 110, 116, 101, 110, 116>>

\* b"Frame(" and b")"
FRAME_PREFIX == <<70, 114, 97, 109, 101, 40>>
FRAME_SUFFIX == <<41>>

\* the contents of the messages of the model: "", "a", "test"
PipeContents == {<<>>, <<97>>, <<116, 101, 115, 116>>}

\* HTTP3Sender.stream_id
PipeStreamIds == {0, 9}

\* HTTP3Sender.priority, by the byte it adds to the stream frame: None, or a
\* StreamPriority of weight 1
PipePriorities == {<<>>, <<1>>}

\* Encoder.encode up to the frame: the QPACK encoder's table after the call
\* and the header block it returned
EncoderEncodeOf(headers, st) ==
  [table |-> st.table, size |-> st.size, frame |-> EncodeResult(headers, st, FALSE)]

EncoderEncode(table, size, content) ==
  EncoderEncodeOf(<<<<CONTENT_HEADER, content>>>>,
                 EncodeLoop(<<<<CONTENT_HEADER, content>>>>, 1, 4096,
                            [table |-> table, size |-> size, block |-> <<>>,
                             fields |-> <<>>, insert |-> NoInsert, error |-> "none"]))

\* HTTP3Sender.send: stream_frame = header + prio_byte + frame
Http3SenderSend(stream_id, priority, frame) == <<stream_id>> \o priority \o frame

\* QUICSender.send: the stream frame is wrapped as a QUIC packet
QuicSenderPacket(stream_frame) == EncodeQuicPacket(stream_frame)

\* TLSEncryptor.encrypt: the datagram is the 8-byte sequence number and the
\* ciphertext, kept as the nonce it was made with and its plaintext
Datagram(iv, seq, packet) ==
  [seq |-> ToBytes(seq, 8), nonce |-> ComputeNonce(iv, seq), packet |-> packet]

\* the parameters Decoder.decode declares besides self
DecoderDecodeParams == {"quic_packet"}

\* self.decoder.decode(headers, body)
DecoderDecodeWithBody ==
  IF TakesArguments(2, DecoderDecodeParams) THEN "None" ELSE "TypeError"

\* HTTP3Receiver._decode_frame and the call of the decoder behind it: how
\* receive ends
Http3Decode(frame, header_length) ==
  IF Len(frame) < 2 + header_length THEN "HTTP3FrameError"
  ELSE IF ~DecodeHeaderBlock(Slice(frame, 2, 2 + header_length)).ok THEN "ValueError"
  ELSE DecoderDecodeWithBody

\* HTTP3Receiver.receive(quic_packet)
Http3Receive(frame) ==
  IF Len(frame) < 2 THEN "HTTP3FrameError"
  ELSE Http3Decode(frame, frame[1] * 256 + frame[2])

\* QUICReceiver.receive(quic_packet): the exception that makes it raise
\* QUICFrameReassemblyError, or "None"
QuicReceiveOf(stream_frame) ==
  IF ~stream_frame.ok THEN stream_frame.error ELSE Http3Receive(stream_frame.value)

QuicReceive(quic_packet) == QuicReceiveOf(DecodeQuicPacket(quic_packet))

\* TLSDecryptor.decrypt(encrypted_packet) in demo mode: the exception that
\* makes it raise DecryptionError, or "None"
Decrypt(iv, datagram) ==
  IF ComputeNonce(iv, FromBytes(datagram.seq)) # datagram.nonce THEN "InvalidTag"
  ELSE QuicReceive(datagram.packet)

VARIABLES
  pl_iv,         \* TLSConfig.iv of the encryptor and of the decryptor
  pl_stream_id,  \* HTTP3Sender.stream_id
  pl_priority,   \* HTTP3Sender.priority, as the byte it adds
  pl_table,      \* Encoder.qpack_encoder.dynamic_table
  pl_size,       \* Encoder.qpack_encoder.current_dynamic_table_size
  pl_seq,        \* TLSEncryptor._sequence_number
  pl_datagram,   \* the datagram on the wire, <<>> when there is none
  pl_content,    \* history: the content of the last message encoded
  pl_handed,     \* history: the frames the last encode handed to HTTP3Sender.send
  pl_delivered,  \* history: the messages the consumer has received
  pl_received,   \* history: how the receive pipeline ended for the last datagram
  pl_sends       \* history: the number of encode calls

pipeVars == <<pl_iv, pl_stream_id, pl_priority, pl_table, pl_size, pl_seq, pl_datagram,
              pl_content, pl_handed, pl_delivered, pl_received, pl_sends>>

NotReceived == [called |-> FALSE, result |-> "none", cause |-> "none", before |-> <<>>]

\* both pipelines as the integration test builds them
PipeInitWith(iv, stream_id, priority) ==
  /\ pl_iv = iv
  /\ pl_stream_id = stream_id
  /\ pl_priority = priority
  /\ pl_table = <<>>
  /\ pl_size = 0
  /\ pl_seq = 0
  /\ pl_datagram = <<>>
  /\ pl_content = <<>>
  /\ pl_handed = <<>>
  /\ pl_delivered = <<>>
  /\ pl_received = NotReceived
  /\ pl_sends = 0

PipeInit ==
  \E iv \in StaticIVs, stream_id \in PipeStreamIds, priority \in PipePriorities :
    PipeInitWith(iv, stream_id, priority)

\* Encoder.encode(Message(content)) down to the datagram
PipeEncode(content) ==
  /\ pl_sends < MaxSends
  /\ \E enc \in {EncoderEncode(pl_table, pl_size, content)} :
       /\ enc.frame.ok
       /\ pl_table' = enc.table
       /\ pl_size' = enc.size
       /\ pl_handed' = <<enc.frame.value>>
       /\ pl_datagram' =
            <<Datagram(pl_iv, pl_seq,
                       QuicSenderPacket(Http3SenderSend(pl_stream_id, pl_priority,
                                                    enc.frame.value)).value)>>
  /\ pl_seq' = pl_seq + 1
  /\ pl_content' = content
  /\ pl_received' = NotReceived
  /\ pl_sends' = pl_sends + 1
  /\ UNCHANGED <<pl_iv, pl_stream_id, pl_priority, pl_delivered>>

\* TLSDecryptor.decrypt(datagram) up to the consumer
PipeReceive ==
  /\ pl_datagram # <<>>
  /\ ~pl_received.called
  /\ \E cause \in {Decrypt(pl_iv, pl_datagram[1])} :
       /\ pl_received' = [called |-> TRUE,
                          result |-> IF cause = "None" THEN "None" ELSE "DecryptionError",
                          cause |-> cause, before |-> pl_delivered]
       /\ pl_delivered' = IF cause = "None" THEN Append(pl_delivered, pl_content)
                          ELSE pl_delivered
  /\ UNCHANGED <<pl_iv, pl_stream_id, pl_priority, pl_table, pl_size, pl_seq, pl_datagram,
                 pl_content, pl_handed, pl_sends>>

-----------------------------------------------------------------------------
(* StreamPriority (http3/streams/priority.py): a dataclass with order=True, *)
(* weight compared and dependency not compared.                            *)

\* the weights and dependencies callers pass to StreamPriority(...)
WeightInputs == {-1, 0, 1, 2, 256, 257, 300}
DependencyInputs == {0, 5}

\* the bounds of __post_init__
MinWeight == 1
MaxWeight == 256

\* __post_init__, the mutant without the upper bound
PostInitWithoutUpperBound(weight) ==
  IF ~(MinWeight <= weight) THEN "ValueError" ELSE "None"

\* __post_init__: if not (1 <= self.weight <= 256): raise ValueError
PostInit(weight) ==
  IF ~(MinWeight <= weight /\ weight <= MaxWeight) THEN "ValueError" ELSE "None"

\* the fields the generated comparison methods use, the mutant where
\* dependency is compared too
CompareKeyWithDependency(p) == <<p.weight, p.dependency>>

\* the fields the generated comparison methods use: those with compare=True,
\* in the order of their declaration
CompareKey(p) == <<p.weight>>

\* Python's order of tuples of integers of one length
RECURSIVE TupleLt(_, _)
TupleLt(a, b) ==
  IF a = <<>> THEN FALSE
  ELSE IF Head(a) # Head(b) THEN Head(a) < Head(b)
  ELSE TupleLt(Tail(a), Tail(b))

\* StreamPriority.__eq__ and __lt__ as dataclass generates them
PriorityEq(p, q) == CompareKey(p) = CompareKey(q)
PriorityLt(p, q) == TupleLt(CompareKey(p), CompareKey(q))

\* sorted(priorities): a stable sort that compares with __lt__ only; x goes
\* before the first element it is less than
RECURSIVE InsertSorted(_, _)
InsertSorted(x, list) ==
  IF list = <<>> THEN <<x>>
  ELSE IF PriorityLt(x, Head(list)) THEN <<x>> \o list
  ELSE <<Head(list)>> \o InsertSorted(x, Tail(list))

RECURSIVE SortedPriorities(_)
SortedPriorities(list) ==
  IF list = <<>> THEN <<>>
  ELSE InsertSorted(list[Len(list)], SortedPriorities(SubSeq(list, 1, Len(list) - 1)))

VARIABLES
  pr_list,      \* the StreamPriority objects constructed, in order
  pr_last,      \* history: the last StreamPriority(...) call and how it ended
  pr_attached,  \* Stream.priority of one stream: <<>> is None
  pr_sorted     \* history: the last sorted(...) call, its input and output

prioVars == <<pr_list, pr_last, pr_attached, pr_sorted>>

NotConstructed == [called |-> FALSE, weight |-> 0, dependency |-> 0, result |-> "none"]
NotSorted == [called |-> FALSE, input |-> <<>>, output |-> <<>>]

PrioInit ==
  /\ pr_list = <<>>
  /\ pr_last = NotConstructed
  /\ pr_attached = <<>>
  /\ pr_sorted = NotSorted

\* StreamPriority(weight=weight, dependency=dependency)
PrioConstruct(weight, dependency) ==
  /\ Len(pr_list) < MaxPriorities
  /\ pr_last' = [called |-> TRUE, weight |-> weight, dependency |-> dependency,
                 result |-> PostInit(weight)]
  /\ pr_list' = IF PostInit(weight) = "None"
                  THEN Append(pr_list, [weight |-> weight, dependency |-> dependency])
                  ELSE pr_list
  /\ UNCHANGED <<pr_attached, pr_sorted>>

\* stream.set_priority(priority) with one of the objects constructed
PrioSetPriority(i) ==
  /\ i \in DOMAIN pr_list
  /\ pr_attached' = <<pr_list[i]>>
  /\ UNCHANGED <<pr_list, pr_last, pr_sorted>>

\* sorted(priorities) of the objects constructed
PrioSort ==
  /\ pr_sorted' = [called |-> TRUE, input |-> pr_list, output |-> SortedPriorities(pr_list)]
  /\ UNCHANGED <<pr_list, pr_last, pr_attached>>

-----------------------------------------------------------------------------
(* RetransmissionManager, the acknowledgements and what                    *)
(* get_retransmission_packets does with them.                               *)

VARIABLES
  rtx_acked,    \* history: the ids of packets mark_acknowledged was called for
  rtx_skipped   \* history: the ids the last get_retransmission_packets took
                \* from the queue and did not return

rtxHistVars == <<rtx_acked, rtx_skipped>>

AckInit ==
  /\ rtx_acked = {}
  /\ rtx_skipped = {}

\* the ids of a list of (id, packet) pairs
Ids(packets) == {packets[i][1] : i \in DOMAIN packets}

\* mark_acknowledged(pid) for the id of a packet add_packet has returned
AckPacket(pid) ==
  /\ pid < rtx_counter
  /\ MarkAcknowledged(pid)
  /\ rtx_acked' = rtx_acked \cup {pid}
  /\ UNCHANGED rtx_skipped

\* get_retransmission_packets()
DrainQueue ==
  /\ GetRetransmissionPackets
  /\ rtx_skipped' = Range(rtx_queue) \ Ids(rtx_out')
  /\ UNCHANGED rtx_acked

-----------------------------------------------------------------------------
(* TLSEncryptor in demo mode, encrypt called by several threads            *)
(* (sender/tls_encryptor.py).  The class has no lock: every read and write *)
(* of _sequence_number is a step of its own.                               *)

VARIABLES
  te_iv,       \* TLSEncryptor.config.iv
  te_seq,      \* TLSEncryptor._sequence_number
  te_pc,       \* per thread: position inside encrypt
  te_nonce,    \* per thread: encrypt's local `nonce`
  te_tmp,      \* per thread: the value `_sequence_number += 1` has loaded
  te_sent,     \* the records udp_sender.send took: sequence number and nonce
  te_calls,    \* history: the number of encrypt calls started
  te_returned  \* history: the number of encrypt calls that have returned

teVars == <<te_iv, te_seq, te_pc, te_nonce, te_tmp, te_sent, te_calls, te_returned>>

TeInitWith(iv) ==
  /\ te_iv = iv
  /\ te_seq = 0
  /\ te_pc = [t \in Threads |-> "idle"]
  /\ te_nonce = [t \in Threads |-> <<>>]
  /\ te_tmp = [t \in Threads |-> 0]
  /\ te_sent = <<>>
  /\ te_calls = 0
  /\ te_returned = 0

TeInit == \E iv \in StaticIVs : TeInitWith(iv)

\* nonce = self._compute_nonce()
EncryptNonce(t) ==
  /\ te_pc[t] = "idle"
  /\ te_calls < MaxThreadEncrypts
  /\ te_nonce' = [te_nonce EXCEPT ![t] = ComputeNonce(te_iv, te_seq)]
  /\ te_calls' = te_calls + 1
  /\ te_pc' = [te_pc EXCEPT ![t] = "record"]
  /\ UNCHANGED <<te_iv, te_seq, te_tmp, te_sent, te_returned>>

\* ciphertext = self.aesgcm.encrypt(nonce, quic_packet, None);
\* record = self._sequence_number.to_bytes(8, byteorder="big") + ciphertext;
\* self.udp_sender.send(record)
EncryptRecord(t) ==
  /\ te_pc[t] = "record"
  /\ te_sent' = Append(te_sent, [seq |-> ToBytes(te_seq, 8), nonce |-> te_nonce[t]])
  /\ te_pc' = [te_pc EXCEPT ![t] = "load"]
  /\ UNCHANGED <<te_iv, te_seq, te_nonce, te_tmp, te_calls, te_returned>>

\* finally: self._sequence_number += 1, the load
EncryptLoad(t) ==
  /\ te_pc[t] = "load"
  /\ te_tmp' = [te_tmp EXCEPT ![t] = te_seq]
  /\ te_pc' = [te_pc EXCEPT ![t] = "store"]
  /\ UNCHANGED <<te_iv, te_seq, te_nonce, te_sent, te_calls, te_returned>>

\* finally: self._sequence_number += 1, the store; encrypt returns
EncryptStore(t) ==
  /\ te_pc[t] = "store"
  /\ te_seq' = te_tmp[t] + 1
  /\ te_returned' = te_returned + 1
  /\ te_pc' = [te_pc EXCEPT ![t] = "idle"]
  /\ te_nonce' = [te_nonce EXCEPT ![t] = <<>>]
  /\ te_tmp' = [te_tmp EXCEPT ![t] = 0]
  /\ UNCHANGED <<te_iv, te_sent, te_calls>>

-----------------------------------------------------------------------------
(* HTTP3Connection.route_incoming_frame on a fresh connection, one frame   *)
(* of every frame type that has a handler in http3/frames (and of types    *)
(* that have none) with every payload layout of the frame table.           *)

\* frame types: the keys of dispatch_map whose handler exists, and types
\* outside 0x07..0x11
FdFrameTypes == DOMAIN DispatchMap \cup {0, 6, 18}

\* payloads: empty, a byte that is no UTF-8, "a=b", a stream id, a stream id
\* or code with text, with a weight, with a second 4-byte field (and text),
\* a control code with text, text alone, and a code with a byte that is no
\* UTF-8
FdPayloads ==
  {<<>>, <<255>>, <<97, 61, 98>>, ToBytes4(1), ToBytes4(1) \o <<104, 105>>,
   ToBytes4(1) \o <<7>>, ToBytes4(2) \o ToBytes4(1), ToBytes4(2) \o ToBytes4(1) \o <<104>>,
   <<3, 104>>, <<104, 105>>, ToBytes4(1) \o <<255>>}

FdPackets == {H3Frame(t, p) : t \in FdFrameTypes, p \in FdPayloads}

VARIABLES
  fd_packet,    \* the packet given to route_incoming_frame
  fd_handler,   \* history: the handler dispatch_map.get chose, "none" before the call
  fd_result,    \* history: how route_incoming_frame ended, "none" before the call
  fd_streams,   \* StreamManager._streams
  fd_response   \* HTTP3Connection._response

fdVars == <<fd_packet, fd_handler, fd_result, fd_streams, fd_response>>

FdInitWith(packet) ==
  /\ fd_packet = packet
  /\ fd_handler = "none"
  /\ fd_result = "none"
  /\ fd_streams = <<>>
  /\ fd_response = None

FdInit == \E packet \in FdPackets : FdInitWith(packet)

\* no frame to route
FdDefault == FdInitWith(<<>>)

\* route_incoming_frame(packet): the handler of line 179 is chosen once the
\* frame header and the payload length are accepted
FdRouteIncomingFrame ==
  /\ fd_result = "none"
  /\ fd_packet # <<>>
  /\ \E after \in {RouteIncomingFrame(fd_streams, fd_response, fd_packet)} :
       /\ fd_streams' = after.streams
       /\ fd_response' = after.response
       /\ fd_result' = after.result
  /\ fd_handler' = IF Refusal(fd_packet) \in {"short", "incomplete"} THEN "none"
                   ELSE HandlerFor(fd_packet[1])
  /\ UNCHANGED fd_packet

-----------------------------------------------------------------------------
(* One QPACKEncoder and one QPACKDecoder that lives as long as the encoder *)
(* (http3/qpack/encoder.py, http3/qpack/decoder.py): the decoder is given  *)
(* every header block the encoder returns, in order, and header blocks     *)
(* that hold one indexed field.                                            *)

\* the header maps given to encode
QdHeaderMaps ==
  {RoundTripHeaders} \cup HeaderMapsOfLen(1)
    \cup {h \in HeaderMapsOfLen(2) : h[1][1] = <<120, 45, 105, 100>>}

\* the indices of the indexed fields given to decode: 0, static positions,
\* the first position after the 6-bit prefix, and positions behind the 96
\* entries of STATIC_TABLE
QdIndexes == {0, 1, 2, 62, 63, 96, 97, 98, 99, 100}

VARIABLES
  qd_table,    \* QPACKDecoder.dynamic_table
  qd_block,    \* the header block of the last decode call
  qd_result,   \* what the last decode call returned or raised
  qd_fed,      \* the decoder has been given every block the encoder returned
  qd_blocks    \* history: the number of encode calls

qdVars == <<qd_table, qd_block, qd_result, qd_fed, qd_blocks>>

QdInit ==
  /\ qd_table = <<>>
  /\ qd_block = <<>>
  /\ qd_result = NotCalled
  /\ qd_fed = TRUE
  /\ qd_blocks = 0

\* self.dynamic_table when decode(header_block) has returned or raised: the
\* table with the literals decoded before the end or the exception
RECURSIVE TableAfterDecode(_, _, _, _)
TableAfterIndexed(static_table, header_block, pos, dynamic_table, index) ==
  IF ~index.ok \/ index.value[1] - Len(static_table) > Len(dynamic_table)
  THEN dynamic_table
  ELSE TableAfterDecode(static_table, header_block, pos + index.value[2], dynamic_table)

TableAfterLiteral(static_table, header_block, pos, dynamic_table, literal) ==
  IF ~literal.ok THEN dynamic_table
  ELSE TableAfterDecode(static_table, header_block, pos + literal.value.consumed,
                        <<<<literal.value.name, literal.value.value>>>> \o dynamic_table)

TableAfterDecode(static_table, header_block, pos, dynamic_table) ==
  IF pos >= Len(header_block) THEN dynamic_table
  ELSE IF header_block[pos + 1] >= 128
  THEN TableAfterIndexed(static_table, header_block, pos, dynamic_table,
         DecodeInteger(<<header_block[pos + 1] % 128>>
                         \o Slice(header_block, pos + 1, Len(header_block)), 6))
  ELSE TableAfterLiteral(static_table, header_block, pos, dynamic_table,
         DecodeLiteral(header_block, pos))

\* decode(header_block) on the decoder
QdDecodeWith(static_table, header_block) ==
  /\ qd_block' = header_block
  /\ qd_result' = DecodeLoop(static_table, header_block, 0, qd_table, {})
  /\ qd_table' = TableAfterDecode(static_table, header_block, 0, qd_table)

\* encode(headers) on the encoder
QdEncode(headers) ==
  /\ qd_fed
  /\ qd_blocks < MaxBlocks
  /\ QpackEncode(headers)
  /\ qd_fed' = ~qp_block'.ok
  /\ qd_blocks' = qd_blocks + 1
  /\ UNCHANGED <<qd_table, qd_block, qd_result>>

\* decode(block) of the block the encoder has just returned
QdDecodeEncoded ==
  /\ ~qd_fed
  /\ QdDecodeWith(STATIC_TABLE, qp_block.value)
  /\ qd_fed' = TRUE
  /\ UNCHANGED <<qpackVars, qd_blocks>>

\* decode(block) of a block that is one indexed field
QdDecodeIndexed(index) ==
  /\ qd_fed
  /\ QdDecodeWith(STATIC_TABLE, EncodeIndexed(index))
  /\ UNCHANGED <<qpackVars, qd_fed, qd_blocks>>

-----------------------------------------------------------------------------
(* Specifications *)

vars == <<streamVars, smVars, connVars, mgrVars, hsVars, ccVars, rtxVars, codecVars, qmVars, encVars, qpackVars, huffVars, h3Vars, loopVars, pipeVars, prioVars, rtxHistVars, teVars, fdVars, qdVars, now>>

\* a component that a specification does not run is constructed the way
\* QUICManager constructs it: QUICHandshake without TLS manager,
\* CongestionController() and RetransmissionManager(controller)
HsDefault == HsInitWith(FALSE)
CCDefault == CCInitWith(DefaultMss, <<>>)
RtxDefault == RtxInitWith(DefaultMaxRetries, <<>>)
EncDefault == EncInitWith([i \in 1..12 |-> 0])
\* no manager
QmDefault == QmInitWith("none")
\* a codec that is not run holds an empty payload
CodecDefault == CodecInitWith(<<>>)
\* an encryptor no thread calls
TeDefault == TeInitWith([i \in 1..12 |-> 0])
\* no priority is made
PrioDefault == PrioInit
\* a pipeline that is not run
PipeDefault == PipeInitWith([i \in 1..12 |-> 0], 0, <<>>)
\* a loop that is not run
LoopDefault == LoopInitWith(1)
\* QPACKEncoder()
QpackDefault == QpackInitWith(4096, FALSE)
\* no string given to huffman_encode
HuffDefault == HuffInitWith(<<>>)

InitStream ==
  /\ StreamInit /\ SMInit /\ ConnInit /\ MgrInit /\ HsDefault
  /\ CCDefault /\ RtxDefault /\ now = 0 /\ EncDefault /\ QmDefault /\ CodecDefault
  /\ QdInit
  /\ FdDefault
  /\ TeDefault
  /\ AckInit
  /\ PrioDefault
  /\ PipeDefault
  /\ LoopDefault
  /\ H3Init
  /\ HuffDefault
  /\ QpackDefault

InitHs ==
  /\ StreamInit /\ SMInit /\ ConnInit /\ MgrInit /\ HsInit
  /\ CCDefault /\ RtxDefault /\ now = 0 /\ EncDefault /\ QmDefault /\ CodecDefault
  /\ QdInit
  /\ FdDefault
  /\ TeDefault
  /\ AckInit
  /\ PrioDefault
  /\ PipeDefault
  /\ LoopDefault
  /\ H3Init
  /\ HuffDefault
  /\ QpackDefault

InitCC ==
  /\ StreamInit /\ SMInit /\ ConnInit /\ MgrInit /\ HsDefault
  /\ CCInit /\ RtxDefault /\ now = 0 /\ EncDefault /\ QmDefault /\ CodecDefault
  /\ QdInit
  /\ FdDefault
  /\ TeDefault
  /\ AckInit
  /\ PrioDefault
  /\ PipeDefault
  /\ LoopDefault
  /\ H3Init
  /\ HuffDefault
  /\ QpackDefault

InitRtx ==
  /\ StreamInit /\ SMInit /\ ConnInit /\ MgrInit /\ HsDefault
  /\ CCDefault /\ RtxInit /\ now = 0 /\ EncDefault /\ QmDefault /\ CodecDefault
  /\ QdInit
  /\ FdDefault
  /\ TeDefault
  /\ AckInit
  /\ PrioDefault
  /\ PipeDefault
  /\ LoopDefault
  /\ H3Init
  /\ HuffDefault
  /\ QpackDefault

InitCodec ==
  /\ StreamInit /\ SMInit /\ ConnInit /\ MgrInit /\ HsDefault
  /\ CCDefault /\ RtxDefault /\ now = 0 /\ EncDefault /\ QmDefault /\ CodecInit
  /\ QdInit
  /\ FdDefault
  /\ TeDefault
  /\ AckInit
  /\ PrioDefault
  /\ PipeDefault
  /\ LoopDefault
  /\ H3Init
  /\ HuffDefault
  /\ QpackDefault

InitMgr ==
  /\ StreamInit /\ SMInit /\ ConnOpened /\ MgrConstructed /\ HsDefault
  /\ CCDefault /\ RtxDefault /\ now = 0 /\ EncDefault /\ CodecDefault /\ QmInit
  /\ QdInit
  /\ FdDefault
  /\ TeDefault
  /\ AckInit
  /\ PrioDefault
  /\ PipeDefault
  /\ LoopDefault
  /\ H3Init
  /\ HuffDefault
  /\ QpackDefault

InitEnc ==
  /\ StreamInit /\ SMInit /\ ConnInit /\ MgrInit /\ HsDefault
  /\ CCDefault /\ RtxDefault /\ now = 0 /\ QmDefault /\ CodecDefault /\ EncInit
  /\ QdInit
  /\ FdDefault
  /\ TeDefault
  /\ AckInit
  /\ PrioDefault
  /\ PipeDefault
  /\ LoopDefault
  /\ H3Init
  /\ HuffDefault
  /\ QpackDefault

InitQpack ==
  /\ StreamInit /\ SMInit /\ ConnInit /\ MgrInit /\ HsDefault
  /\ CCDefault /\ RtxDefault /\ now = 0 /\ QmDefault /\ CodecDefault /\ EncDefault
  /\ QdInit
  /\ FdDefault
  /\ TeDefault
  /\ AckInit
  /\ PrioDefault
  /\ PipeDefault
  /\ LoopDefault
  /\ H3Init
  /\ HuffDefault
  /\ QpackInit

InitQd ==
  /\ StreamInit /\ SMInit /\ ConnInit /\ MgrInit /\ HsDefault
  /\ CCDefault /\ RtxDefault /\ now = 0 /\ QmDefault /\ CodecDefault /\ EncDefault
  /\ QdInit
  /\ FdDefault
  /\ TeDefault
  /\ AckInit
  /\ PrioDefault
  /\ PipeDefault
  /\ LoopDefault
  /\ H3Init
  /\ HuffDefault
  /\ QpackInit

InitHuff ==
  /\ StreamInit /\ SMInit /\ ConnInit /\ MgrInit /\ HsDefault
  /\ CCDefault /\ RtxDefault /\ now = 0 /\ QmDefault /\ CodecDefault /\ EncDefault
  /\ QdInit
  /\ FdDefault
  /\ TeDefault
  /\ AckInit
  /\ PrioDefault
  /\ PipeDefault
  /\ LoopDefault
  /\ H3Init
  /\ QpackDefault
  /\ HuffInit

InitH3 ==
  /\ StreamInit /\ SMInit /\ ConnInit /\ MgrInit /\ HsDefault
  /\ CCDefault /\ RtxDefault /\ now = 0 /\ QmDefault /\ CodecDefault /\ EncDefault
  /\ QdInit
  /\ FdDefault
  /\ TeDefault
  /\ AckInit
  /\ PrioDefault
  /\ PipeDefault
  /\ LoopDefault
  /\ QpackDefault
  /\ HuffDefault
  /\ H3Init

\* what the actions of one component leave alone
streamFrame == <<smVars, connVars, mgrVars, hsVars, ccVars, rtxVars, codecVars, qmVars, encVars, qpackVars, huffVars, h3Vars, loopVars, pipeVars, prioVars, rtxHistVars, teVars, fdVars, qdVars, now>>
smFrame == <<streamVars, connVars, mgrVars, hsVars, ccVars, rtxVars, codecVars, qmVars, encVars, qpackVars, huffVars, h3Vars, loopVars, pipeVars, prioVars, rtxHistVars, teVars, fdVars, qdVars, now>>
connFrame == <<streamVars, smVars, mgrVars, hsVars, ccVars, rtxVars, codecVars, qmVars, encVars, qpackVars, huffVars, h3Vars, loopVars, pipeVars, prioVars, rtxHistVars, teVars, fdVars, qdVars, now>>
mgrFrame == <<streamVars, smVars, hsVars, ccVars, rtxVars, codecVars, qmVars, encVars, qpackVars, huffVars, h3Vars, loopVars, pipeVars, prioVars, rtxHistVars, teVars, fdVars, qdVars, now>>
hsFrame == <<streamVars, smVars, mgrVars, ccVars, rtxVars, codecVars, qmVars, encVars, qpackVars, huffVars, h3Vars, loopVars, pipeVars, prioVars, rtxHistVars, teVars, fdVars, qdVars, now>>
ccFrame == <<streamVars, smVars, connVars, mgrVars, hsVars, rtxVars, codecVars, qmVars, encVars, qpackVars, huffVars, h3Vars, loopVars, pipeVars, prioVars, rtxHistVars, teVars, fdVars, qdVars>>
rtxFrame == <<streamVars, smVars, connVars, mgrVars, hsVars, codecVars, qmVars, encVars, qpackVars, huffVars, h3Vars, loopVars, pipeVars, prioVars, rtxHistVars, teVars, fdVars, qdVars>>
codecFrame == <<streamVars, smVars, connVars, mgrVars, hsVars, ccVars, rtxVars, qmVars, encVars, qpackVars, huffVars, h3Vars, loopVars, pipeVars, prioVars, rtxHistVars, teVars, fdVars, qdVars, now>>
encFrame == <<streamVars, smVars, connVars, mgrVars, hsVars, ccVars, rtxVars, codecVars, qmVars, qpackVars, huffVars, h3Vars, loopVars, pipeVars, prioVars, rtxHistVars, teVars, fdVars, qdVars, now>>
qpackFrame == <<streamVars, smVars, connVars, mgrVars, hsVars, ccVars, rtxVars, codecVars, qmVars, encVars, huffVars, h3Vars, loopVars, pipeVars, prioVars, rtxHistVars, teVars, fdVars, qdVars, now>>
qdFrame == <<streamVars, smVars, connVars, mgrVars, hsVars, ccVars, rtxVars, codecVars, qmVars, encVars, huffVars, h3Vars, loopVars, pipeVars, prioVars, rtxHistVars, teVars, fdVars, now>>
huffFrame == <<streamVars, smVars, connVars, mgrVars, hsVars, ccVars, rtxVars, codecVars, qmVars, encVars, qpackVars, h3Vars, loopVars, pipeVars, prioVars, rtxHistVars, teVars, fdVars, qdVars, now>>
h3Frame == <<streamVars, smVars, connVars, mgrVars, hsVars, ccVars, rtxVars, codecVars, qmVars, encVars, qpackVars, huffVars, loopVars, pipeVars, prioVars, rtxHistVars, teVars, fdVars, qdVars, now>>
loopFrame == <<streamVars, smVars, connVars, mgrVars, hsVars, ccVars, rtxVars, codecVars, qmVars, encVars, qpackVars, huffVars, h3Vars, pipeVars, prioVars, rtxHistVars, teVars, fdVars, qdVars, now>>
prioFrame == <<streamVars, smVars, connVars, mgrVars, hsVars, ccVars, rtxVars, codecVars, qmVars, encVars, qpackVars, huffVars, h3Vars, loopVars, pipeVars, rtxHistVars, teVars, fdVars, qdVars, now>>
pipeFrame == <<streamVars, smVars, connVars, mgrVars, hsVars, ccVars, rtxVars, codecVars, qmVars, encVars, qpackVars, huffVars, h3Vars, loopVars, prioVars, rtxHistVars, teVars, fdVars, qdVars, now>>
rtxAckFrame == <<streamVars, smVars, connVars, mgrVars, hsVars, codecVars, qmVars, encVars, qpackVars, huffVars, h3Vars, loopVars, pipeVars, prioVars, teVars, fdVars, qdVars>>
teFrame == <<streamVars, smVars, connVars, mgrVars, hsVars, ccVars, rtxVars, codecVars, qmVars, encVars, qpackVars, huffVars, h3Vars, loopVars, pipeVars, prioVars, rtxHistVars, fdVars, qdVars, now>>
fdFrame == <<streamVars, smVars, connVars, mgrVars, hsVars, ccVars, rtxVars, codecVars, qmVars, encVars, qpackVars, huffVars, h3Vars, loopVars, pipeVars, prioVars, rtxHistVars, teVars, qdVars, now>>
clockFrame == <<streamVars, smVars, connVars, mgrVars, hsVars, ccVars, rtxVars, codecVars, qmVars, encVars, qpackVars, huffVars, h3Vars, loopVars, pipeVars, prioVars, rtxHistVars, teVars, fdVars, qdVars>>

NextStream ==
  \/ \E t \in Threads : Open(t) /\ UNCHANGED streamFrame
  \/ \E t \in Threads : Close(t) /\ UNCHANGED streamFrame
  \/ \E t \in Threads, d \in Chunks : SendData(t, d) /\ UNCHANGED streamFrame
  \/ \E t \in Threads : ReceiveDataCopy(t) /\ UNCHANGED streamFrame
  \/ \E t \in Threads : ReceiveDataClear(t) /\ UNCHANGED streamFrame
  \/ \E t \in Threads, p \in Priorities : SetPriority(t, p) /\ UNCHANGED streamFrame

NextSM ==
  \/ \E t \in Threads : CreateStreamAcquire(t) /\ UNCHANGED smFrame
  \/ \E t \in Threads : CreateStreamRead(t) /\ UNCHANGED smFrame
  \/ \E t \in Threads : CreateStreamLoad(t) /\ UNCHANGED smFrame
  \/ \E t \in Threads : CreateStreamStore(t) /\ UNCHANGED smFrame
  \/ \E t \in Threads : CreateStreamRegister(t) /\ UNCHANGED smFrame
  \/ \E t \in Threads, id \in 1..(MaxStreams + 1) : CloseStreamPop(t, id) /\ UNCHANGED smFrame
  \/ \E t \in Threads : CloseStreamClose(t) /\ UNCHANGED smFrame

\* create_stream and close_stream together with close_all and iteration
NextSMAll ==
  \/ \E t \in Threads : CreateStreamAcquire(t) /\ UNCHANGED smFrame
  \/ \E t \in Threads : CreateStreamRead(t) /\ UNCHANGED smFrame
  \/ \E t \in Threads : CreateStreamLoad(t) /\ UNCHANGED smFrame
  \/ \E t \in Threads : CreateStreamStore(t) /\ UNCHANGED smFrame
  \/ \E t \in Threads : CreateStreamRegister(t) /\ UNCHANGED smFrame
  \/ \E t \in Threads, id \in 1..(MaxStreams + 1) : CloseStreamPop(t, id) /\ UNCHANGED smFrame
  \/ \E t \in Threads : CloseStreamClose(t) /\ UNCHANGED smFrame
  \/ \E t \in Threads : CloseAllSnapshot(t) /\ UNCHANGED smFrame
  \/ \E t \in Threads : CloseAllPop(t) /\ UNCHANGED smFrame
  \/ \E t \in Threads : CloseAllClose(t) /\ UNCHANGED smFrame
  \/ \E t \in Threads : CloseAllReturn(t) /\ UNCHANGED smFrame
  \/ IterStart /\ UNCHANGED smFrame
  \/ IterNext /\ UNCHANGED smFrame

NextConn ==
  \/ ConnOpen /\ UNCHANGED connFrame
  \/ ConnClose /\ UNCHANGED connFrame
  \/ \E p \in ConnPackets : ConnSendPacket(p) /\ UNCHANGED connFrame
  \/ \E kwargs \in {{"packet"}, {"timeout"}}, p \in ConnPackets :
       ConnReceivePacket(kwargs, p) /\ UNCHANGED connFrame
  \/ MgrInitConnection /\ UNCHANGED mgrFrame
  \/ MgrInitStreamManager /\ UNCHANGED mgrFrame

NextHs ==
  \/ ConnOpen /\ UNCHANGED connFrame
  \/ ConnClose /\ UNCHANGED connFrame
  \/ HsSendInitialPacket /\ UNCHANGED hsFrame
  \/ \E p \in HsPackets, tlsRaises \in BOOLEAN :
       HsProcessIncomingPacket(p, tlsRaises) /\ UNCHANGED hsFrame

NextCC ==
  \/ \E t \in Threads, n \in AckSizes : OnAck(t, n) /\ UNCHANGED ccFrame
  \/ \E t \in Threads : OnLoss(t) /\ UNCHANGED ccFrame
  \/ \E t \in Threads : UpdateCwnd(t) /\ UNCHANGED ccFrame
  \/ \E t \in Threads : CCReset(t) /\ UNCHANGED ccFrame
  \/ Tick /\ UNCHANGED clockFrame

NextRtx ==
  \/ \E p \in ConnPackets : AddPacket(p) /\ UNCHANGED <<rtxFrame, ccVars>>
  \/ \E pid \in 0..(MaxRtxPackets - 1) : MarkAcknowledged(pid) /\ UNCHANGED <<rtxFrame, ccVars>>
  \/ ProcessTimeouts /\ UNCHANGED rtxFrame
  \/ GetRetransmissionPackets /\ UNCHANGED <<rtxFrame, ccVars>>
  \/ RtxReset /\ UNCHANGED <<rtxFrame, ccVars>>
  \/ Tick /\ UNCHANGED clockFrame

\* add_packet, mark_acknowledged, process_timeouts and
\* get_retransmission_packets with the acknowledgements recorded
NextRtxAck ==
  \/ \E p \in ConnPackets : AddPacket(p) /\ UNCHANGED <<rtxFrame, ccVars>>
  \/ \E pid \in 0..(MaxRtxPackets - 1) : AckPacket(pid) /\ UNCHANGED <<rtxAckFrame, ccVars>>
  \/ ProcessTimeouts /\ UNCHANGED rtxFrame
  \/ DrainQueue /\ UNCHANGED <<rtxAckFrame, ccVars>>
  \/ Tick /\ UNCHANGED clockFrame

InitTe ==
  /\ StreamInit /\ SMInit /\ ConnInit /\ MgrInit /\ HsDefault
  /\ CCDefault /\ RtxDefault /\ now = 0 /\ QmDefault /\ CodecDefault /\ EncDefault
  /\ QdInit
  /\ FdDefault
  /\ TeInit
  /\ AckInit
  /\ PrioDefault
  /\ H3Init
  /\ HuffDefault
  /\ QpackDefault
  /\ LoopDefault
  /\ PipeDefault

InitFd ==
  /\ StreamInit /\ SMInit /\ ConnInit /\ MgrInit /\ HsDefault
  /\ CCDefault /\ RtxDefault /\ now = 0 /\ QmDefault /\ CodecDefault /\ EncDefault
  /\ QdInit
  /\ FdInit
  /\ TeDefault
  /\ AckInit
  /\ PrioDefault
  /\ H3Init
  /\ HuffDefault
  /\ QpackDefault
  /\ LoopDefault
  /\ PipeDefault

NextTe ==
  \/ \E t \in Threads : EncryptNonce(t) /\ UNCHANGED teFrame
  \/ \E t \in Threads : EncryptRecord(t) /\ UNCHANGED teFrame
  \/ \E t \in Threads : EncryptLoad(t) /\ UNCHANGED teFrame
  \/ \E t \in Threads : EncryptStore(t) /\ UNCHANGED teFrame

NextFd ==
  FdRouteIncomingFrame /\ UNCHANGED fdFrame

NextCodec ==
  \/ CodecEncode /\ UNCHANGED codecFrame
  \/ ChangeMarker /\ UNCHANGED codecFrame
  \/ ChangeLength /\ UNCHANGED codecFrame
  \/ ChangeChecksum /\ UNCHANGED codecFrame
  \/ ChangePayload /\ UNCHANGED codecFrame
  \/ Truncate /\ UNCHANGED codecFrame
  \/ CodecDecode /\ UNCHANGED codecFrame

NextCodecWire ==
  \/ CodecEncode /\ UNCHANGED codecFrame
  \/ ChangeMarker /\ UNCHANGED codecFrame
  \/ ChangeLength /\ UNCHANGED codecFrame
  \/ ChangeChecksum /\ UNCHANGED codecFrame
  \/ ChangePayload /\ UNCHANGED codecFrame
  \/ Truncate /\ UNCHANGED codecFrame
  \/ AppendByte /\ UNCHANGED codecFrame
  \/ WireEmptyPayload /\ UNCHANGED codecFrame
  \/ CodecDecode /\ UNCHANGED codecFrame

\* what the manager's own methods, its event loop and its retransmission
\* loop leave alone
qmRestFrame == <<streamVars, smVars, mgrVars, hsVars, codecVars, encVars, qpackVars, huffVars, h3Vars, loopVars, pipeVars, prioVars, rtxHistVars, teVars, fdVars, qdVars>>
qmFrame == <<qmRestFrame, connVars, ccVars, rtxVars, now>>

NextMgr ==
  \/ EvRunStart /\ UNCHANGED qmFrame
  \/ EvLoopExit /\ UNCHANGED qmFrame
  \/ EvFinally /\ UNCHANGED qmFrame
  \/ QmCreateStream /\ UNCHANGED qmFrame
  \/ \E frame \in MgrFrames : QmSendStream(frame) /\ UNCHANGED <<qmRestFrame, ccVars>>
  \/ \E frame \in MgrFrames :
       QmSendPacket(PackagePacket(frame)) /\ UNCHANGED <<qmRestFrame, ccVars, rtxVars, now>>
  \/ \E packet \in MgrWirePackets : QmReceivePacket(packet) /\ UNCHANGED qmFrame
  \/ \E pid \in 0..(MaxRtxPackets - 1) :
       /\ qm_kind = QUICManagerClass
       /\ MarkAcknowledged(pid)
       /\ UNCHANGED <<qmRestFrame, qmVars, connVars, ccVars>>
  \/ QmCloseConnection /\ UNCHANGED <<qmRestFrame, ccVars, rtxVars, now>>
  \/ QmCloseStop /\ UNCHANGED qmFrame
  \/ QmCloseJoin /\ UNCHANGED qmFrame
  \/ RtxLoopWhile /\ UNCHANGED qmFrame
  \/ RtxLoopSleep /\ UNCHANGED qmFrame
  \/ RtxLoopBody /\ UNCHANGED qmRestFrame

NextEnc ==
  \E packet \in EncPackets, fault \in EncFaults : Encrypt(packet, fault) /\ UNCHANGED encFrame

NextQpack ==
  \/ \E headers \in HeaderMaps : QpackEncode(headers) /\ UNCHANGED qpackFrame
  \/ QpackDecode /\ UNCHANGED qpackFrame

NextQd ==
  \/ \E headers \in QdHeaderMaps : QdEncode(headers) /\ UNCHANGED qdFrame
  \/ QdDecodeEncoded /\ UNCHANGED qdFrame
  \/ \E index \in QdIndexes : QdDecodeIndexed(index) /\ UNCHANGED qdFrame

NextHuff ==
  \/ HuffEncodeCall /\ UNCHANGED huffFrame
  \/ HuffDecodeCall /\ UNCHANGED huffFrame

NextH3 ==
  \/ H3CreateStream /\ UNCHANGED h3Frame
  \/ \E stream_id \in 1..MaxH3Streams : H3CloseStream(stream_id) /\ UNCHANGED h3Frame
  \/ \E packet \in H3Packets : H3RouteIncomingFrame(packet) /\ UNCHANGED h3Frame
  \/ H3ReceiveResponse /\ UNCHANGED h3Frame
  \/ \E settings \in H3Settings : H3NegotiateSettings(settings) /\ UNCHANGED h3Frame
  \/ H3Close /\ UNCHANGED h3Frame

NextPrio ==
  \/ \E weight \in WeightInputs, dependency \in DependencyInputs :
       PrioConstruct(weight, dependency) /\ UNCHANGED prioFrame
  \/ \E i \in 1..MaxPriorities : PrioSetPriority(i) /\ UNCHANGED prioFrame
  \/ PrioSort /\ UNCHANGED prioFrame

InitPipe ==
  /\ StreamInit /\ SMInit /\ ConnInit /\ MgrInit /\ HsDefault
  /\ CCDefault /\ RtxDefault /\ now = 0 /\ QmDefault /\ CodecDefault /\ EncDefault
  /\ QdInit
  /\ FdDefault
  /\ TeDefault
  /\ AckInit
  /\ PrioDefault
  /\ H3Init
  /\ HuffDefault
  /\ QpackDefault
  /\ LoopDefault
  /\ PipeInit

NextPipe ==
  \/ \E content \in PipeContents : PipeEncode(content) /\ UNCHANGED pipeFrame
  \/ PipeReceive /\ UNCHANGED pipeFrame

InitLoop ==
  /\ StreamInit /\ SMInit /\ ConnInit /\ MgrInit /\ HsDefault
  /\ CCDefault /\ RtxDefault /\ now = 0 /\ QmDefault /\ CodecDefault /\ EncDefault
  /\ QdInit
  /\ FdDefault
  /\ TeDefault
  /\ AckInit
  /\ PrioDefault
  /\ PipeDefault
  /\ H3Init
  /\ HuffDefault
  /\ QpackDefault
  /\ LoopInit
  /\ PipeDefault

NextLoop ==
  \/ ScheduleSubmit /\ UNCHANGED loopFrame
  \/ ScheduleAppend /\ UNCHANGED loopFrame
  \/ \E w \in WorkerIds : WorkerTake(w) /\ UNCHANGED loopFrame
  \/ \E w \in WorkerIds : WorkerFinish(w) /\ UNCHANGED loopFrame
  \/ \E w \in WorkerIds : WorkerExit(w) /\ UNCHANGED loopFrame
  \/ RunStart /\ UNCHANGED loopFrame
  \/ RunPrune /\ UNCHANGED loopFrame
  \/ RunExit /\ UNCHANGED loopFrame
  \/ RunFinally /\ UNCHANGED loopFrame
  \/ RunJoined /\ UNCHANGED loopFrame
  \/ StopCall /\ UNCHANGED loopFrame
  \/ StopShutdown /\ UNCHANGED loopFrame
  \/ StopJoined /\ UNCHANGED loopFrame

\* the worker threads, the caller of schedule_task and the thread in
\* run_forever are threads of the operating system: each takes its next
\* step when it can
LoopFairness ==
  /\ \A w \in WorkerIds : WF_vars(WorkerTake(w) /\ UNCHANGED loopFrame)
  /\ \A w \in WorkerIds : WF_vars(WorkerFinish(w) /\ UNCHANGED loopFrame)
  /\ \A w \in WorkerIds : WF_vars(WorkerExit(w) /\ UNCHANGED loopFrame)
  /\ WF_vars(ScheduleAppend /\ UNCHANGED loopFrame)

SpecStream == InitStream /\ [][NextStream]_vars

SpecSM == InitStream /\ [][NextSM]_vars

SpecSMAll == InitStream /\ [][NextSMAll]_vars

SpecConn == InitStream /\ [][NextConn]_vars

SpecHs == InitHs /\ [][NextHs]_vars

SpecCC == InitCC /\ [][NextCC]_vars

\* a thread that waits for the lock inside on_ack gets it when it is free
CCFairness ==
  \A t \in Threads :
    WF_vars(cc_pc[t] = "update_cwnd" /\ UpdateCwnd(t) /\ UNCHANGED ccFrame)

SpecCCFair == InitCC /\ [][NextCC]_vars /\ CCFairness

SpecRtx == InitRtx /\ [][NextRtx]_vars

SpecRtxAck == InitRtx /\ [][NextRtxAck]_vars

SpecTe == InitTe /\ [][NextTe]_vars

SpecFd == InitFd /\ [][NextFd]_vars

SpecCodec == InitCodec /\ [][NextCodec]_vars

SpecCodecWire == InitCodec /\ [][NextCodecWire]_vars

SpecMgr == InitMgr /\ [][NextMgr]_vars

SpecEnc == InitEnc /\ [][NextEnc]_vars

SpecQpack == InitQpack /\ [][NextQpack]_vars

SpecQd == InitQd /\ [][NextQd]_vars

SpecHuff == InitHuff /\ [][NextHuff]_vars

SpecH3 == InitH3 /\ [][NextH3]_vars

SpecPrio == InitStream /\ [][NextPrio]_vars

SpecPipe == InitPipe /\ [][NextPipe]_vars

SpecLoop == InitLoop /\ [][NextLoop]_vars /\ LoopFairness

\* the thread that runs run_forever and the thread that calls stop() are
\* threads of the operating system as well: each statement they reach and
\* can execute is executed
RunFairness ==
  /\ WF_vars(RunStart /\ UNCHANGED loopFrame)
  /\ WF_vars(RunPrune /\ UNCHANGED loopFrame)
  /\ WF_vars(RunExit /\ UNCHANGED loopFrame)
  /\ WF_vars(RunFinally /\ UNCHANGED loopFrame)
  /\ WF_vars(RunJoined /\ UNCHANGED loopFrame)
  /\ WF_vars(StopShutdown /\ UNCHANGED loopFrame)
  /\ WF_vars(StopJoined /\ UNCHANGED loopFrame)

SpecLoopFair == InitLoop /\ [][NextLoop]_vars /\ LoopFairness /\ RunFairness

-----------------------------------------------------------------------------
(* Claims *)

\* C1: the stream ids one StreamManager hands out are strictly increasing in
\* allocation order (hence pairwise distinct), every stream returned is
\* registered until close_stream removes it, and the id of a closed stream is
\* never handed out again.
C1_StreamIdsIncreasingUnique ==
  /\ \A i, j \in 1..Len(sm_created) : i < j => sm_created[i] < sm_created[j]
  /\ Cardinality(Range(sm_created)) = Len(sm_created)
  /\ sm_streams = Range(sm_created) \ sm_closedIds
  /\ \A id \in sm_closedIds : id < sm_next

\* three streams created, the first two closed again, the third still registered
C1_Witness ==
  /\ sm_created = <<1, 2, 3>>
  /\ sm_closedIds = {1, 2}
  /\ sm_streams = {3}

\* C2: the state of a stream only moves forward in the order IDLE, OPEN,
\* HALF_CLOSED, CLOSED; open() changes it only when it is IDLE, so a CLOSED
\* stream never becomes OPEN again.
C2_StateMonotonic ==
  [][/\ StateRank(st_state') >= StateRank(st_state)
     /\ (st_flip' # st_flip /\ st_last'.op = "open" /\ st_state # IDLE)
          => st_state' = st_state]_vars

\* open() was called on a stream that is CLOSED
C2_Witness == st_state = CLOSED /\ st_last.op = "open"

\* C3: send_data appends its bytes exactly when the state is OPEN; in any
\* other state it fails and leaves buffer and state unchanged.
C3_SendDataOnlyWhenOpen ==
  [][(st_flip' # st_flip /\ st_last'.op = "send_data") =>
       IF st_state = OPEN
         THEN /\ st_last'.ok
              /\ st_buffer' = st_buffer \o st_last'.arg
              /\ st_state' = st_state
         ELSE /\ ~st_last'.ok
              /\ st_buffer' = st_buffer
              /\ st_state' = st_state]_vars

\* send_data failed on a closed stream whose buffer still holds bytes
C3_Witness ==
  /\ st_last.op = "send_data"
  /\ ~st_last.ok
  /\ st_state = CLOSED
  /\ st_buffer # <<>>

\* C4: what the receive_data calls returned, followed by what is left in the
\* buffer, is what the send_data calls appended, in append order.
C4_NoByteLostOrDuplicated == st_received \o st_buffer = st_sent

\* bytes were returned by receive_data and further bytes are buffered
C4_Witness ==
  /\ st_received # <<>>
  /\ st_buffer # <<>>
  /\ st_last.op = "send_data"

\* C5: close() is idempotent and final: once close() has been called, every
\* later send_packet fails and leaves the send queue unchanged, whatever
\* other connection operations are called in between.
C5_SendFailsAfterClose ==
  [][(conn_closeCalled /\ conn_flip' # conn_flip /\ conn_last'.op = "send_packet")
       => (conn_last'.result = "QuicConnectionError" /\ conn_sent' = conn_sent)]_vars

\* C6: receive_packet(timeout) returns None when no packet arrives (also when
\* close() is called meanwhile) instead of blocking or failing.
C6_ReceiveTimeoutReturnsNone ==
  conn_last.op = "receive_packet(timeout)" => conn_last.result = "None"

\* C10: when QUICManager.__init__ fails, it fails with the handshake-timeout
\* error (QUICManagerError) and has closed the connection on the way out.
C10_InitFailureClosesConnection ==
  mgr_pc = "raised" => (mgr_err = "QUICManagerError" /\ ~conn_is_open)

\* C9: after a VERNEG packet that lists the local version, the following
\* HANDSHAKE_DONE (or TLS_START, TLS_DONE) packets are still processed and
\* drive the machine to COMPLETED.
C9_CompletesAfterVersionNegotiation ==
  (/\ Len(hs_log) >= 3
   /\ hs_log[1] = <<"VERNEG:", "v1">>
   /\ hs_log[2] = <<"HANDSHAKE_DONE">>
   /\ ~hs_raised) => hs_state = COMPLETED

\* C7: cwnd is at least min_cwnd in every reachable state of a
\* CongestionController, whatever its configuration.
C7_CwndAtLeastMin == cc_cwnd >= cc_min_cwnd

\* C8: a pending packet has been queued for retransmission once per retry
\* and never more than max_retries times; process_timeouts drops a packet
\* only after it was queued exactly max_retries times; and the congestion
\* controller got one loss notification per queueing.
C8_RetransmittedMaxRetriesTimes ==
  /\ \A pid \in DOMAIN rtx_pending :
       /\ rtx_queued[pid] = rtx_pending[pid].retries
       /\ rtx_queued[pid] <= rtx_max_retries
  /\ \A d \in rtx_dropped : d.queued = rtx_max_retries
  /\ cc_losses = rtx_queuedTotal

\* a packet was retransmitted three times and then dropped
C8_Witness ==
  /\ rtx_max_retries = DefaultMaxRetries
  /\ \E d \in rtx_dropped : d.queued = DefaultMaxRetries
  /\ cc_losses >= DefaultMaxRetries

\* C14: decoding an encoded non-empty payload returns the payload; after one
\* byte of the length field or of the checksum field was changed decoding
\* fails; encoding the empty payload fails.
C14_CodecRoundTrip ==
  /\ codec_packet # NotCalled => (codec_packet.ok <=> codec_payload # <<>>)
  /\ (codec_result # NotCalled /\ codec_changed = "none")
       => codec_result = Returned(codec_payload)
  /\ (codec_result # NotCalled /\ codec_changed \in {"length", "checksum"})
       => ~codec_result.ok

\* a packet whose length field was lowered was decoded and rejected
C14_Witness ==
  /\ codec_changed = "length"
  /\ Len(codec_packet.value) - 16 > FromBytes(Slice(codec_packet.value, 4, 8))
  /\ codec_result # NotCalled
  /\ ~codec_result.ok

C12_CloseStopsEverything ==
  /\ (qm_close_pc = "join" /\ ev_pc = "loop") => ~ev_running
  /\ qm_close_pc = "returned" =>
       /\ ~conn_is_open
       /\ ev_shutdown
       /\ ev_pc = "done"
       /\ qm_rtx_pc \in {"none", "done", "raised"}

\* C13: when the packet given to receive_packet fails decoding, the call
\* does not return normally: the failure reaches the caller.
C13_DecodeFailureReported ==
  (qm_last.op = "receive_packet" /\ qm_last.failed) => qm_last.result # "None"

\* C15: the sequence counter starts at 0 and grows by one with every encrypt
\* call, failed or not; the records built carry strictly increasing
\* sequence numbers and pairwise different nonces.
C15_SequenceStrictlyIncreasing ==
  /\ enc_seq = enc_calls
  /\ \A i, j \in 1..Len(enc_records) :
       i < j => /\ FromBytes(enc_records[i].seq) < FromBytes(enc_records[j].seq)
                /\ enc_records[i].nonce # enc_records[j].nonce

\* a record was sent after a call that failed in udp_sender.send
C15_Witness ==
  /\ Len(enc_records) > Len(enc_sent)
  /\ enc_sent # <<>>
  /\ enc_records[Len(enc_records)] = enc_sent[Len(enc_sent)]
  /\ FromBytes(enc_sent[Len(enc_sent)].seq) >= 2

\* C16: a header named authorization or cookie is always encoded as a
\* never-indexed literal (flag 0x10): no block encode returns holds it as an
\* indexed reference or as a literal with another flag, and the encoder's
\* dynamic table never holds an entry with either name.
C16_SensitiveNeverIndexed ==
  /\ \A i \in DOMAIN qp_fields :
       qp_fields[i].name \in SensitiveNames =>
         (qp_fields[i].kind = "literal" /\ qp_fields[i].first = 16)
  /\ \A i \in DOMAIN qp_table : qp_table[i][1] \notin SensitiveNames

\* the sum of len(name) + len(value) + 32 over the entries of a table
RECURSIVE TableSize(_)
TableSize(table) ==
  IF table = <<>> THEN 0
  ELSE HeaderFieldSize(table[1][1], table[1][2]) + TableSize(Tail(table))

\* the entries an insert keeps: the table before it, without its tail
KeptByInsert == Len(qp_insert.after) - 1

\* C17: after any sequence of encode calls the recorded dynamic-table size
\* is the sum of len(name) + len(value) + 32 over the entries in the table
\* and is at most the configured maximum; an insert puts the new entry in
\* front of the old ones, evicts entries from the tail only, and only while
\* the new entry does not fit; an entry larger than the maximum makes the
\* insert fail and is not in the table.
C17_DynamicTableSize ==
  /\ qp_size = TableSize(qp_table)
  /\ qp_size <= qp_max
  /\ qp_insert.called =>
       IF HeaderFieldSize(qp_insert.entry[1], qp_insert.entry[2]) > qp_max
       THEN qp_insert.failed /\ qp_insert.entry \notin Range(qp_insert.after)
       ELSE /\ ~qp_insert.failed
            /\ KeptByInsert \in 0..Len(qp_insert.before)
            /\ qp_insert.after
                 = <<qp_insert.entry>> \o SubSeq(qp_insert.before, 1, KeptByInsert)
            /\ \/ KeptByInsert = Len(qp_insert.before)
               \/ TableSize(SubSeq(qp_insert.before, 1, KeptByInsert + 1))
                    + HeaderFieldSize(qp_insert.entry[1], qp_insert.entry[2]) > qp_max

\* an insert has evicted some entries of the table and kept others
C17_Witness ==
  /\ qp_insert.called
  /\ ~qp_insert.failed
  /\ KeptByInsert > 0
  /\ KeptByInsert < Len(qp_insert.before)
  /\ qp_table = qp_insert.after

\* C18: for every header map H with no sensitive name, a fresh decoder
\* given the block a fresh encoder returned for H yields exactly H.
C18_QpackRoundTrip ==
  ( /\ qp_call = "first"
    /\ qp_decoded.error # "not called"
    /\ \A i \in DOMAIN qp_headers : qp_headers[i][1] \notin SensitiveNames )
  => (qp_decoded.ok /\ qp_decoded.value = DictOf(qp_headers))

\* every code fits in its bit length, and no code is a prefix of (or equal
\* to) the code of another symbol
IsPrefixCode(table) ==
  /\ \A sym \in 0..255 : table[sym + 1][1] < 2^(table[sym + 1][2])
  /\ \A a, b \in 0..255 : a # b => ~IsPrefix(CodeBits(table[a + 1]), CodeBits(table[b + 1]))

\* C19: huffman_decode(huffman_encode(b)) = b for every byte string b, and
\* the 256-entry Huffman table is a prefix code.
C19_HuffmanRoundTrip ==
  /\ huff_decoded.error # "not called" =>
       (huff_decoded.ok /\ huff_decoded.value = huff_input)
  /\ IsPrefixCode(HPACK_HUFFMAN_TABLE)

\* the stream id and the stream data of the payload of the last frame
LastStreamId == FromBytes(SubSeq(h3_last.payload, 1, 4))
LastStreamData == SubSeq(h3_last.payload, 5, Len(h3_last.payload))

\* the bytes b end the buffer
EndsWith(buffer, b) ==
  Len(b) <= Len(buffer) /\ SubSeq(buffer, Len(buffer) - Len(b) + 1, Len(buffer)) = b

\* C20: when route_incoming_frame accepts a frame whose payload has at least
\* 4 bytes, the bytes after the 4-byte big-endian stream id are appended to
\* the buffer of the stream with that id, created and opened first if
\* absent, and receive_response() then returns those bytes;
\* receive_response() returns None before any frame was routed.
C20_RoutedFrameReachesItsStream ==
  /\ (h3_last.called /\ h3_last.result # "HTTP3ConnectionError" /\ Len(h3_last.payload) >= 4) =>
       /\ LastStreamId \in DOMAIN h3_last.streams
       /\ h3_last.streams[LastStreamId].state = OPEN
       /\ EndsWith(h3_last.streams[LastStreamId].buffer, LastStreamData)
       /\ h3_last.response = Returned(LastStreamData)
  /\ (h3_received.ok /\ h3_routes = 0) => h3_received.value = None

\* a packet that is no well-formed frame: shorter than the frame header,
\* shorter than the length it states, or refused by the handler of its type
IsMalformed(packet) ==
  \/ Len(packet) < 3
  \/ Len(packet) - 3 < packet[2] * 256 + packet[3]
  \/ HandlerRaises(packet[1], SubSeq(packet, 4, Len(packet)))

C22_TasksRunOnceBeforeStopReturns ==
  /\ [](\A t \in 1..MaxTasks : lp_runs[t] <= 1)
  /\ [](Len(lp_workers) <= lp_max)
  /\ [](lp_stop_pc = "returned" => lp_stop_seen \subseteq lp_done)
  /\ [](lp_sched_pc = "append" => ENABLED ScheduleAppend)
  /\ \A t \in 1..MaxTasks : (t < lp_next) ~> (t \in lp_done /\ lp_runs[t] = 1)

\* stop() was called with every task of the model submitted and has
\* returned, on an executor that started two worker threads
C22_Witness ==
  /\ lp_stop_pc = "returned"
  /\ lp_stop_seen = 1..MaxTasks
  /\ lp_done = 1..MaxTasks
  /\ Len(lp_workers) = 2

\* C23: Encoder.encode(Message(content=c)) hands exactly one frame to the
\* HTTP/3 sender, and that frame is the bytes "Frame(" followed by c followed
\* by ")".
C23_EncoderHandsFrameOfContent ==
  pl_sends > 0 => pl_handed = <<FRAME_PREFIX \o pl_content \o FRAME_SUFFIX>>

\* C24: the datagram made by the send pipeline, fed into the receive
\* pipeline, reaches the consumer exactly once and with the content that was
\* sent.
C24_PipelinesAreInverse ==
  pl_received.called =>
    /\ pl_received.result = "None"
    /\ pl_delivered = Append(pl_received.before, pl_content)

\* C25: close_stream(id) leaves the id unregistered and, when it removed a
\* stream, that stream CLOSED; close_all returns only when no stream that was
\* registered at its call is still registered or not CLOSED.
C25_CloseRemovesAndCloses ==
  [][\A t \in Threads :
       /\ (sm_pc[t] = "cl_close" /\ sm_pc'[t] = "idle") =>
            /\ sm_popped[t] # 0 =>
                 /\ GetStream(sm_streams', sm_popped[t]) = 0
                 /\ sm_objState'[sm_popped[t]] = CLOSED
            /\ sm_popped[t] = 0 => UNCHANGED <<sm_streams, sm_objState>>
       /\ (sm_pc[t] = "ca_loop" /\ sm_pc'[t] = "idle") =>
            \A id \in sm_seen[t] :
              /\ GetStream(sm_streams', id) = 0
              /\ sm_objState'[id] = CLOSED]_vars

\* C26: an iteration yields the streams registered when it started, in their
\* order, whatever create_stream and close_stream do meanwhile, and does not
\* fail.
C26_IterationIsSnapshot ==
  /\ sm_iter.state # "RuntimeError"
  /\ sm_iter.state = "active" =>
       \E n \in 0..Len(KeyList(sm_iter.snapshot)) :
         sm_iter.yielded = SubSeq(KeyList(sm_iter.snapshot), 1, n)
  /\ sm_iter.state = "exhausted" => sm_iter.yielded = KeyList(sm_iter.snapshot)

\* C27: StreamPriority(weight=w) succeeds exactly when 1 <= w <= 256 and
\* raises ValueError for every other w, so every priority object made, and
\* every one attached to a stream, has a weight in [1, 256].
C27_WeightInRange ==
  /\ pr_last.called =>
       /\ (1 <= pr_last.weight /\ pr_last.weight <= 256) => pr_last.result = "None"
       /\ ~(1 <= pr_last.weight /\ pr_last.weight <= 256) => pr_last.result = "ValueError"
  /\ \A i \in DOMAIN pr_list : pr_list[i].weight \in 1..256
  /\ \A i \in DOMAIN pr_attached : pr_attached[i].weight \in 1..256

\* weight 256 was accepted and attached to the stream, weight 257 rejected
\* after 0 had been
C27_Witness ==
  /\ pr_last.called /\ pr_last.weight = 257 /\ pr_last.result = "ValueError"
  /\ pr_attached = <<[weight |-> 256, dependency |-> 5]>>
  /\ pr_list = <<[weight |-> 1, dependency |-> 0], [weight |-> 256, dependency |-> 5]>>

\* the bijections between the positions of a list of n elements
PositionPermutations(n) ==
  {f \in [1..n -> 1..n] : \A i, j \in 1..n : f[i] = f[j] => i = j}

\* out is input ordered by weight, elements of equal weight in their order
\* in input
IsStableSortByWeight(input, out) ==
  /\ Len(out) = Len(input)
  /\ \E f \in PositionPermutations(Len(input)) :
       /\ \A i \in 1..Len(out) : out[i] = input[f[i]]
       /\ \A i, j \in 1..Len(out) :
            i < j => \/ out[i].weight < out[j].weight
                     \/ out[i].weight = out[j].weight /\ f[i] < f[j]

\* C28: two priorities are equal exactly when their weights are and one is
\* less than the other exactly when its weight is, whatever the
\* dependencies; sorted() yields non-decreasing weights and keeps priorities
\* of equal weight in their original order.
C28_OrderedByWeightOnly ==
  /\ \A i, j \in DOMAIN pr_list :
       /\ PriorityEq(pr_list[i], pr_list[j]) <=> pr_list[i].weight = pr_list[j].weight
       /\ PriorityLt(pr_list[i], pr_list[j]) <=> pr_list[i].weight < pr_list[j].weight
  /\ pr_sorted.called =>
       /\ \A i, j \in DOMAIN pr_sorted.output :
            i < j => pr_sorted.output[i].weight <= pr_sorted.output[j].weight
       /\ IsStableSortByWeight(pr_sorted.input, pr_sorted.output)

\* two priorities of weight 2 with dependencies 5 and 0, in that order, and
\* one of weight 1 behind them were sorted
C28_Witness ==
  /\ pr_sorted.called
  /\ pr_sorted.input = <<[weight |-> 2, dependency |-> 5], [weight |-> 2, dependency |-> 0],
                         [weight |-> 1, dependency |-> 0]>>
  /\ pr_sorted.output = <<[weight |-> 1, dependency |-> 0], [weight |-> 2, dependency |-> 5],
                          [weight |-> 2, dependency |-> 0]>>

\* C29: every on_ack call returns: a thread that is inside on_ack, at its
\* call of _update_cwnd, gets back to its caller.
C29_OnAckReturns ==
  \A t \in Threads : (cc_pc[t] = "update_cwnd") ~> (cc_pc[t] = "idle")

\* C30: an on_loss call, with c the cwnd before it, leaves
\* ssthresh = max(floor(c * beta), min_cwnd), origin_point = c and
\* cwnd = ssthresh, in every interleaving with on_ack on other threads.
C30_LossSetsWindow ==
  [][cc_losses' # cc_losses =>
       /\ cc_ssthresh' = Finite(Max(IntTimesBeta(cc_cwnd, cc_beta), cc_min_cwnd))
       /\ cc_origin' = cc_cwnd
       /\ cc_cwnd' = cc_ssthresh'.v]_vars

\* a loss after one acknowledgement in slow start: 14600 + 1460 = 16060 was
\* the window, int(16060 * 0.7) = 11242 is the new one
C30_Witness ==
  /\ cc_losses = 1
  /\ cc_origin = 16060
  /\ cc_cwnd = 11242
  /\ cc_ssthresh = Finite(11242)

\* C31: get_retransmission_packets empties the queue and returns only
\* packets that are pending; an id mark_acknowledged was called for is in
\* no later result, also when it was in the queue at the acknowledgement.
C31_AckedNeverRetransmitted ==
  [][GetRetransmissionPackets =>
       /\ rtx_queue' = <<>>
       /\ Ids(rtx_out') \subseteq DOMAIN rtx_pending
       /\ Ids(rtx_out') \cap rtx_acked = {}
       /\ \A i \in DOMAIN rtx_out' : rtx_out'[i][2] = rtx_pending[rtx_out'[i][1]].packet]_vars

\* packet 0 was queued for retransmission, then acknowledged, and the drain
\* that followed took it from the queue without returning it, while the
\* pending packet 1 was returned
C31_Witness ==
  /\ 0 \in rtx_acked
  /\ 0 \in rtx_skipped
  /\ Ids(rtx_out) = {1}

\* C32: encrypt calls that run concurrently on one encryptor produce records
\* with different sequence numbers and different nonces, and the counter has
\* advanced by one for every call that has returned.
C32_ConcurrentEncryptsDiffer ==
  /\ \A i, j \in DOMAIN te_sent :
       i # j => /\ te_sent[i].seq # te_sent[j].seq
                /\ te_sent[i].nonce # te_sent[j].nonce
  /\ (\A t \in Threads : te_pc[t] = "idle") => te_seq = te_returned

\* C33: once stop() has been called, run_forever() terminates, in whatever
\* order the two threads run (stop() may execute before run_forever has set
\* its running flag); so a close() that calls stop() and then joins the
\* thread of run_forever returns.
C33_RunForeverTerminates == (lp_stop_pc # "idle") ~> (lp_rf_pc = "done")

IsWellFormedPayload(frame_type, payload) ==
  LET n == Len(payload)
      text(from) == DecodesAsUtf8(SubSeq(payload, from, n))
  IN CASE frame_type = 7 -> n = 4 /\ FromBytes(payload) > 0
       [] frame_type \in {8, 11} -> n >= 4 /\ text(5)
       [] frame_type = 9 -> n >= 1 /\ text(2)
       [] frame_type = 12 -> n >= 8 /\ text(9)
       [] frame_type = 13 -> text(1)
       [] frame_type = 15 -> n = 5
       [] frame_type = 16 -> n = 8
       [] frame_type = 17 -> n > 0 /\ text(1) /\ 61 \in Range(payload)
       [] OTHER -> TRUE

\* C35: route_incoming_frame hands a frame of a known type (0x07..0x11) with
\* a well-formed payload (for CANCEL a 4-byte big-endian stream id) to the
\* handler of that type and the handler accepts it; a frame of any other
\* type goes to the UNKNOWN handler and is accepted.
C35_KnownFramesAccepted ==
  fd_result # "none" =>
    /\ IsWellFormedPayload(fd_packet[1], FramePayload(fd_packet)) =>
         fd_result # "HTTP3ConnectionError"
    /\ fd_handler = "handle_unknown_frame" <=> fd_packet[1] \notin 7..17

\* C36: decoding an indexed field whose index is outside
\* 1..(static table length + dynamic table length), index 0 included, fails
\* with the index error and yields no header; every index from 1 to 99
\* resolves to the static-table entry at that position.
C36_IndexedFieldInRange ==
  \A index \in QdIndexes :
    (qd_result # NotCalled /\ qd_block = EncodeIndexed(index)) =>
      /\ index \notin 1..(Len(STATIC_TABLE) + Len(qd_table)) =>
           (~qd_result.ok /\ qd_result.error = "ValueError")
      /\ index \in 1..99 =>
           /\ index <= Len(STATIC_TABLE)
           /\ qd_result = Returned({STATIC_TABLE[index]})

C38_DecoderInStep ==
  qd_fed =>
    /\ \A i \in DOMAIN qp_table : i <= Len(qd_table) /\ qd_table[i] = qp_table[i]
    /\ (qp_block.ok /\ qd_block = qp_block.value) => qd_result = Returned(DictOf(qp_headers))

\* C39: auditing never changes the outcome of an encoding: an encode call
\* that succeeds with auditing off succeeds with auditing on as well and
\* returns the same block, also when it emits a header as a reference to a
\* dynamic-table entry that an earlier encode call inserted.
C39_AuditingChangesNothing ==
  [][(qd_blocks' = qd_blocks + 1 /\ qp_auditing) =>
       LET st == EncodeLoop(qp_headers', 1, qp_max,
                            [table |-> qp_table, size |-> qp_size, block |-> <<>>,
                             fields |-> <<>>, insert |-> qp_insert, error |-> "none"])
           off == EncodeResult(qp_headers', st, FALSE)
       IN off.ok => qp_block' = off]_vars

\* C40: decode_quic_packet accepts exactly the packets encode_quic_packet
\* can produce: whenever it returns a payload for a packet, the packet is the
\* encoding of that payload; a packet with bytes behind the payload or with
\* a payload of length zero is rejected.
C40_DecodeAcceptsOnlyEncodings ==
  codec_result.ok => EncodeQuicPacket(codec_result.value) = Returned(codec_packet.value)

====
